---- MODULE Spec2Model ----
(***************************************************************************)
(* FSAS attendance session engine: the token codec (qr-code-generator.js), *)
(* the scan handler (attendance-api.js), the session lifecycle handlers    *)
(* and the rotation scheduler (optimized-class-api), and the storage       *)
(* constraints of final-optimized-schema.sql.                              *)
(*                                                                         *)
(* Times are wall-clock milliseconds (Date.now()).  Every handler is split *)
(* at its awaits: one action per store round trip, taken together with the *)
(* synchronous code that runs when the round trip's result resumes the     *)
(* handler (the code before the first await runs with the first round      *)
(* trip).                                                                  *)
(***************************************************************************)
EXTENDS Integers, Sequences, FiniteSets, TLC

VARIABLES
    now,              \* Date.now()
    probe,            \* the codec / lateness computation under test (pure specifications)
    sessions,         \* table class_sessions: session id -> row
    enrollments,      \* table enrollments of the one class: student -> status
    records,          \* table attendance_records: a set of rows
    activeRotations,  \* the Map activeRotations: session id -> interval handle
    intervals,        \* the live setInterval timers
    timeouts,         \* the pending setTimeout callbacks
    issued,           \* every qr_data generateSecureQR has returned so far
    reqs,             \* the handlers and callbacks in flight: slot -> frame
    response          \* what the last step sent back (or logged), if it ended a handler

vars == <<now, probe, sessions, enrollments, records, activeRotations, intervals, timeouts, issued, reqs, response>>

----------------------------------------------------------------------------
(* JavaScript values, as far as the codec looks at them.                   *)

Num(n) == [type |-> "number", v |-> n]

Str(s) == [type |-> "string", v |-> s]

\* the string Date.prototype.toISOString() returns for the instant ms
IsoString(ms) == [type |-> "date-string", ms |-> ms]

Undefined == [type |-> "undefined"]

\* the array [s] holding the one string s
ArrayOf(s) == [type |-> "array", v |-> s]

\* !v is false
Truthy(v) ==
    CASE v.type = "number" -> v.v # 0
      [] v.type = "string" -> v.v # ""
      [] v.type = "date-string" -> TRUE
      [] v.type = "array" -> TRUE
      [] OTHER -> FALSE

\* `${v}`
TemplateString(v) ==
    CASE v.type = "number" -> ToString(v.v)
      [] v.type = "string" -> v.v
      [] v.type = "date-string" -> "iso:" \o ToString(v.ms)
      [] v.type = "array" -> v.v
      [] OTHER -> "undefined"

\* new Date(v).getTime(): {} is NaN, {ms} a valid instant
DateGetTime(v) ==
    CASE v.type = "number" -> {v.v}
      [] v.type = "date-string" -> {v.ms}
      [] OTHER -> {}

----------------------------------------------------------------------------
(* Token codec: qr-code-generator.js                                       *)

QR_SECRET == "fsas_qr_secret_key_2024_secure"

QR_EXPIRY_SECONDS == 30

MaxTokenAgeMs == 30000

\* crypto.createHmac('sha256', key).update(data).digest('hex'): an ideal MAC,
\* a different string for every (key, data)
HmacSha256Hex(key, data) == Str("hmac[" \o key \o "](" \o data \o ")")

\* the string that is signed
SignedData(sessionId, timestamp, nonce) ==
    TemplateString(sessionId) \o "-" \o TemplateString(timestamp) \o "-" \o TemplateString(nonce)

\* generateSecureQR with the expiry computed in seconds, not milliseconds
generateSecureQR_SecondsExpiry(sessionId, timestamp, nonce, qrCodeSecret) ==
    LET qrData == [sessionId |-> Str(sessionId),
                   timestamp |-> Num(timestamp),
                   nonce     |-> Str(nonce),
                   signature |-> HmacSha256Hex(QR_SECRET, SignedData(Str(sessionId), Num(timestamp), Str(nonce))),
                   expiresAt |-> IsoString(timestamp + QR_EXPIRY_SECONDS)]
    IN  [qr_data |-> qrData, expires_at |-> timestamp + QR_EXPIRY_SECONDS,
         session_id |-> sessionId, secret |-> qrCodeSecret]

\* generateSecureQR(sessionId) with Date.now() = timestamp and the two random
\* draws nonce and qrCodeSecret
generateSecureQR(sessionId, timestamp, nonce, qrCodeSecret) ==
    LET qrData == [sessionId |-> Str(sessionId),
                   timestamp |-> Num(timestamp),
                   nonce     |-> Str(nonce),
                   signature |-> HmacSha256Hex(QR_SECRET, SignedData(Str(sessionId), Num(timestamp), Str(nonce))),
                   expiresAt |-> IsoString(timestamp + QR_EXPIRY_SECONDS * 1000)]
    IN  [qr_data |-> qrData, expires_at |-> timestamp + QR_EXPIRY_SECONDS * 1000,
         session_id |-> sessionId, secret |-> qrCodeSecret]

requiredFields == <<"sessionId", "timestamp", "nonce", "signature", "expiresAt">>

Invalid(msg) == [isValid |-> FALSE, error |-> msg]

\* validateQR that trusts the expiresAt field: no check of the token's age
validateQR_NoAgeCheck(qrData, t) ==
    IF qrData = Undefined THEN Invalid("Invalid QR code format")
    ELSE LET missing == {i \in 1..Len(requiredFields) : ~Truthy(qrData[requiredFields[i]])}
             first   == CHOOSE i \in missing : \A j \in missing : i <= j
             expiresAt == DateGetTime(qrData.expiresAt)
         IN  IF missing # {} THEN Invalid("Missing required field: " \o requiredFields[first])
             ELSE IF qrData.timestamp.type # "number" \/ qrData.timestamp.v <= 0
                  THEN Invalid("Invalid timestamp format")
             ELSE IF expiresAt = {} THEN Invalid("Invalid expiry date format")
             ELSE IF \E e \in expiresAt : t > e THEN Invalid("QR code has expired")
             ELSE IF HmacSha256Hex(QR_SECRET, SignedData(qrData.sessionId, qrData.timestamp, qrData.nonce))
                        # qrData.signature
                  THEN Invalid("Invalid QR code signature")
             ELSE [isValid |-> TRUE, sessionId |-> qrData.sessionId, timestamp |-> qrData.timestamp]

\* validateQR(qrData) with Date.now() = t
validateQR(qrData, t) ==
    IF qrData = Undefined THEN Invalid("Invalid QR code format")
    ELSE LET missing == {i \in 1..Len(requiredFields) : ~Truthy(qrData[requiredFields[i]])}
             first   == CHOOSE i \in missing : \A j \in missing : i <= j
             expiresAt == DateGetTime(qrData.expiresAt)
         IN  IF missing # {} THEN Invalid("Missing required field: " \o requiredFields[first])
             ELSE IF qrData.timestamp.type # "number" \/ qrData.timestamp.v <= 0
                  THEN Invalid("Invalid timestamp format")
             ELSE IF expiresAt = {} THEN Invalid("Invalid expiry date format")
             ELSE IF \E e \in expiresAt : t > e THEN Invalid("QR code has expired")
             ELSE IF t - qrData.timestamp.v > MaxTokenAgeMs THEN Invalid("QR code is too old")
             ELSE IF HmacSha256Hex(QR_SECRET, SignedData(qrData.sessionId, qrData.timestamp, qrData.nonce))
                        # qrData.signature
                  THEN Invalid("Invalid QR code signature")
             ELSE [isValid |-> TRUE, sessionId |-> qrData.sessionId, timestamp |-> qrData.timestamp]

----------------------------------------------------------------------------
(* The engine's data                                                       *)

AllSessions == {"s1", "s2"}

Students == {"u1", "u2", "u3"}

Nonces == {"n1"}

Secrets == {"k1"}

\* handlers and timer callbacks that may be in flight at once
MaxInFlight == 2

Slots == 1..MaxInFlight

\* how many times the clock advances in one behaviour
MaxClockSteps == 1

RotationIntervalMs == 30000

SessionTimeoutMs == 60 * 60 * 1000

\* new Date(`${session.date}T${session.start_time}`).getTime(), the same for
\* both sessions: 10:00:00.000
SessionStartTime(s) == 10 * 60 * 60 * 1000

\* the engine's clock starts 5 min 45 s after the scheduled start
EngineStartTime == 10 * 60 * 60 * 1000 + 345 * 1000

NULL == {}

Statuses == {"scheduled", "active", "paused", "completed", "cancelled"}

Idle == [op |-> "idle", pc |-> "idle"]

NoResponse == [op |-> "none"]

\* a slot a new handler may take: the lowest one holding no handler
Free(r) ==
    /\ reqs[r] = Idle
    /\ \A q \in Slots : reqs[q] = Idle => r <= q

NewFrame(op, pc, s) ==
    [op |-> op, pc |-> pc, session |-> s, student |-> "-", qr |-> NULL, snap |-> NULL]

At(r, op, pc) == reqs[r].op = op /\ reqs[r].pc = pc

\* the handler in slot r goes on as frame, to its next round trip
Continue(r, frame) ==
    /\ reqs' = [reqs EXCEPT ![r] = frame]
    /\ response' = NoResponse

\* the handler in slot r ends: res.status(code).json({error: msg, ...body}); a
\* timer callback ends with code 0
Finish(r, frame, code, msg, body) ==
    /\ reqs' = [reqs EXCEPT ![r] = Idle]
    /\ response' = [op |-> frame.op, session |-> frame.session, student |-> frame.student,
                    status |-> code, error |-> msg, body |-> body]

InitEngine ==
    /\ sessions = [s \in AllSessions |->
                     [status |-> "scheduled", is_active |-> FALSE, qr_secret |-> NULL,
                      qr_expires_at |-> NULL, attendance_count |-> 0]]
    /\ enrollments = [u \in Students |-> "active"]
    /\ records = {}
    /\ activeRotations = [s \in AllSessions |-> NULL]
    /\ intervals = {}
    /\ timeouts = {}
    /\ issued = {}
    /\ reqs = [r \in Slots |-> Idle]
    /\ response = NoResponse

----------------------------------------------------------------------------
(* Clock                                                                   *)

ClockSteps(t) ==
    LET e == t - EngineStartTime
    IN  (e \div SessionTimeoutMs) + ((e % SessionTimeoutMs) \div RotationIntervalMs)

\* time passes: by one rotation interval, or by the hard-timeout delay
Advance(d) ==
    /\ ClockSteps(now) < MaxClockSteps
    /\ now' = now + d
    /\ response' = NoResponse
    /\ UNCHANGED <<probe, sessions, enrollments, records, activeRotations, intervals, timeouts, issued, reqs>>

----------------------------------------------------------------------------
(* Rotation scheduler: optimized-class-api startQRCodeRotation /           *)
(* stopQRCodeRotation, as the values they leave in activeRotations and in  *)
(* the set of live interval timers.                                        *)

\* how many interval timers, and how many timeouts, may be pending before the
\* clients stop asking for operations that register more
MaxTimers == 2

TimersLeft == Cardinality(intervals) < MaxTimers /\ Cardinality(timeouts) < MaxTimers

FreshTimerId(used) == CHOOSE i \in 1..(Cardinality(used) + 1) : i \notin used

\* setInterval(..., 30000) and activeRotations.set(sessionId, handle)
StartedIntervals(sessionId, t) ==
    intervals \cup {[id |-> FreshTimerId({i.id : i \in intervals}), session |-> sessionId,
                     due |-> t + RotationIntervalMs]}

StartedRotations(sessionId) ==
    [activeRotations EXCEPT ![sessionId] = {FreshTimerId({i.id : i \in intervals})}]

\* clearInterval(activeRotations.get(sessionId)); activeRotations.delete(sessionId)
StoppedIntervals(sessionId) == {i \in intervals : i.id \notin activeRotations[sessionId]}

\* a stopQRCodeRotation that empties the whole registry
StoppedRotations_ClearAll(sessionId) == [s \in AllSessions |-> NULL]

StoppedRotations(sessionId) == [activeRotations EXCEPT ![sessionId] = NULL]

----------------------------------------------------------------------------
(* Storage: final-optimized-schema.sql                                     *)

SameKey(x, y) == x.session_id = y.session_id /\ x.student_id = y.student_id

\* an INSERT that ignores the UNIQUE(session_id, student_id) constraint
UniqueViolation_Unconstrained(rows) == FALSE

\* attendance_records UNIQUE(session_id, student_id): the statement inserting
\* rows fails as a whole
UniqueViolation(rows) ==
    \E x \in rows : \/ \E y \in records : SameKey(x, y)
                    \/ \E y \in rows : y # x /\ SameKey(x, y)

\* a row of attendance_records with the column defaults; created_by names the
\* operation that inserted it
Row(sessionId, studentId, status, minutesLate, scannedAt, by) ==
    [id |-> <<Cardinality(records) + 1, studentId>>,
     session_id |-> sessionId, student_id |-> studentId, status |-> status,
     minutes_late |-> minutesLate, scanned_at |-> scannedAt, created_by |-> by,
     status_changed_by |-> NULL, status_changed_at |-> NULL, status_change_reason |-> NULL]

\* trigger_update_session_attendance_count: after a change of the rows of the
\* sessions in touched, attendance_count = COUNT(*) of the session's rows in recs
CountTrigger(tbl, recs, touched) ==
    [s \in AllSessions |->
        IF s \in touched
        THEN [tbl[s] EXCEPT !.attendance_count = Cardinality({x \in recs : x.session_id = s})]
        ELSE tbl[s]]

----------------------------------------------------------------------------
(* Session lifecycle: optimized-class-api                                  *)

\* POST /api/sessions/:sessionId/activate: select the scheduled session, generate
\* the first QR code
ActivateRead(r, s) ==
    /\ Free(r)
    /\ TimersLeft
    /\ IF sessions[s].status = "scheduled"
       THEN \E n \in Nonces, k \in Secrets :
              LET qrData == generateSecureQR(s, now, n, k)
              IN  /\ Continue(r, [NewFrame("activate", "update", s) EXCEPT !.qr = {qrData}])
                  /\ issued' = issued \cup {qrData.qr_data}
       ELSE /\ Finish(r, NewFrame("activate", "start", s), 400, "Session not found or already activated", NULL)
            /\ UNCHANGED issued
    /\ UNCHANGED <<now, probe, sessions, enrollments, records, activeRotations, intervals, timeouts>>

\* an activate that registers no hard timeout
ActivateUpdate_NoTimeout(r) ==
    /\ At(r, "activate", "update")
    /\ LET s == reqs[r].session
           qrData == CHOOSE q \in reqs[r].qr : TRUE
       IN  /\ sessions' = [sessions EXCEPT ![s] =
                             [@ EXCEPT !.status = "active", !.is_active = TRUE,
                                       !.qr_secret = {qrData.secret},
                                       !.qr_expires_at = {qrData.expires_at}]]
           /\ intervals' = StartedIntervals(s, now)
           /\ activeRotations' = StartedRotations(s)
           /\ Finish(r, reqs[r], 200, "", NULL)
    /\ UNCHANGED <<now, probe, enrollments, records, timeouts, issued>>

\* activate: update class_sessions by id, then startQRCodeRotation and setTimeout
ActivateUpdate(r) ==
    /\ At(r, "activate", "update")
    /\ LET s == reqs[r].session
           qrData == CHOOSE q \in reqs[r].qr : TRUE
       IN  /\ sessions' = [sessions EXCEPT ![s] =
                             [@ EXCEPT !.status = "active", !.is_active = TRUE,
                                       !.qr_secret = {qrData.secret},
                                       !.qr_expires_at = {qrData.expires_at}]]
           /\ intervals' = StartedIntervals(s, now)
           /\ activeRotations' = StartedRotations(s)
           /\ timeouts' = timeouts \cup {[id |-> FreshTimerId({t.id : t \in timeouts}), session |-> s,
                                          due |-> now + SessionTimeoutMs]}
           /\ Finish(r, reqs[r], 200, "", NULL)
    /\ UNCHANGED <<now, probe, enrollments, records, issued>>

\* POST /api/sessions/:sessionId/pause: select the active session, stopQRCodeRotation
PauseRead(r, s) ==
    /\ Free(r)
    /\ IF sessions[s].status = "active"
       THEN /\ Continue(r, NewFrame("pause", "update", s))
            /\ intervals' = StoppedIntervals(s)
            /\ activeRotations' = StoppedRotations(s)
       ELSE /\ Finish(r, NewFrame("pause", "start", s), 400, "Session not found or not active", NULL)
            /\ UNCHANGED <<intervals, activeRotations>>
    /\ UNCHANGED <<now, probe, sessions, enrollments, records, timeouts, issued>>

\* pause: update class_sessions by id
PauseUpdate(r) ==
    /\ At(r, "pause", "update")
    /\ sessions' = [sessions EXCEPT ![reqs[r].session] =
                      [@ EXCEPT !.status = "paused", !.is_active = FALSE, !.qr_expires_at = NULL]]
    /\ Finish(r, reqs[r], 200, "Session paused successfully", NULL)
    /\ UNCHANGED <<now, probe, enrollments, records, activeRotations, intervals, timeouts, issued>>

\* POST /api/sessions/:sessionId/resume: select the paused session, generate a QR code
ResumeRead(r, s) ==
    /\ Free(r)
    /\ TimersLeft
    /\ IF sessions[s].status = "paused"
       THEN \E n \in Nonces, k \in Secrets :
              LET qrData == generateSecureQR(s, now, n, k)
              IN  /\ Continue(r, [NewFrame("resume", "update", s) EXCEPT !.qr = {qrData}])
                  /\ issued' = issued \cup {qrData.qr_data}
       ELSE /\ Finish(r, NewFrame("resume", "start", s), 400, "Session not found or not paused", NULL)
            /\ UNCHANGED issued
    /\ UNCHANGED <<now, probe, sessions, enrollments, records, activeRotations, intervals, timeouts>>

\* a resume that arms a hard timeout of its own
ResumeUpdate_Rearm(r) ==
    /\ At(r, "resume", "update")
    /\ LET s == reqs[r].session
           qrData == CHOOSE q \in reqs[r].qr : TRUE
       IN  /\ sessions' = [sessions EXCEPT ![s] =
                             [@ EXCEPT !.status = "active", !.is_active = TRUE,
                                       !.qr_secret = {qrData.secret},
                                       !.qr_expires_at = {qrData.expires_at}]]
           /\ intervals' = StartedIntervals(s, now)
           /\ activeRotations' = StartedRotations(s)
           /\ timeouts' = timeouts \cup {[id |-> FreshTimerId({t.id : t \in timeouts}), session |-> s,
                                          due |-> now + SessionTimeoutMs]}
           /\ Finish(r, reqs[r], 200, "Session resumed successfully", NULL)
    /\ UNCHANGED <<now, probe, enrollments, records, issued>>

\* resume: update class_sessions by id, then startQRCodeRotation
ResumeUpdate(r) ==
    /\ At(r, "resume", "update")
    /\ LET s == reqs[r].session
           qrData == CHOOSE q \in reqs[r].qr : TRUE
       IN  /\ sessions' = [sessions EXCEPT ![s] =
                             [@ EXCEPT !.status = "active", !.is_active = TRUE,
                                       !.qr_secret = {qrData.secret},
                                       !.qr_expires_at = {qrData.expires_at}]]
           /\ intervals' = StartedIntervals(s, now)
           /\ activeRotations' = StartedRotations(s)
           /\ Finish(r, reqs[r], 200, "Session resumed successfully", NULL)
    /\ UNCHANGED <<now, probe, enrollments, records, timeouts, issued>>

\* POST /api/sessions/:sessionId/cancel: stopQRCodeRotation, update class_sessions by id
Cancel(r, s) ==
    /\ Free(r)
    /\ intervals' = StoppedIntervals(s)
    /\ activeRotations' = StoppedRotations(s)
    /\ sessions' = [sessions EXCEPT ![s] =
                      [@ EXCEPT !.status = "cancelled", !.is_active = FALSE, !.qr_expires_at = NULL]]
    /\ Finish(r, NewFrame("cancel", "start", s), 200, "", NULL)
    /\ UNCHANGED <<now, probe, enrollments, records, timeouts, issued>>

\* a hard-timeout callback that goes on to reconcile whatever the session's status
TimeoutFire_NoStatusCheck(r, t) ==
    /\ Free(r)
    /\ t \in timeouts
    /\ now >= t.due
    /\ timeouts' = timeouts \ {t}
    /\ Continue(r, NewFrame("timeout", "enrollments", t.session))
    /\ intervals' = StoppedIntervals(t.session)
    /\ activeRotations' = StoppedRotations(t.session)
    /\ UNCHANGED <<now, probe, sessions, enrollments, records, issued>>

\* the hard-timeout callback fires: completeSessionAutomatically selects the
\* session if it is still active and stops its rotation
TimeoutFire(r, t) ==
    /\ Free(r)
    /\ t \in timeouts
    /\ now >= t.due
    /\ timeouts' = timeouts \ {t}
    /\ IF sessions[t.session].status = "active"
       THEN /\ Continue(r, NewFrame("timeout", "enrollments", t.session))
            /\ intervals' = StoppedIntervals(t.session)
            /\ activeRotations' = StoppedRotations(t.session)
       ELSE /\ Finish(r, NewFrame("timeout", "start", t.session), 0, "Session not found or already completed", NULL)
            /\ UNCHANGED <<intervals, activeRotations>>
    /\ UNCHANGED <<now, probe, sessions, enrollments, records, issued>>

\* POST /api/sessions/:sessionId/complete: stopQRCodeRotation, select the
\* session's class_instance_id
CompleteStart(r, s) ==
    /\ Free(r)
    /\ intervals' = StoppedIntervals(s)
    /\ activeRotations' = StoppedRotations(s)
    /\ Continue(r, NewFrame("complete", "enrollments", s))
    /\ UNCHANGED <<now, probe, sessions, enrollments, records, timeouts, issued>>

Reconciling(r) == reqs[r].op \in {"complete", "timeout"}

\* complete / completeSessionAutomatically: select the class's active enrollments
ReconcileEnrollments(r) ==
    /\ Reconciling(r) /\ reqs[r].pc = "enrollments"
    /\ Continue(r, [reqs[r] EXCEPT !.pc = "records",
                                   !.snap = {u \in Students : enrollments[u] = "active"}])
    /\ UNCHANGED <<now, probe, sessions, enrollments, records, activeRotations, intervals, timeouts, issued>>

\* select the session's records; studentsNeedingRecords become the absent rows,
\* stamped with the time of this step
ReconcileRecords(r) ==
    /\ Reconciling(r) /\ reqs[r].pc = "records"
    /\ LET s == reqs[r].session
           existingStudentIds == {x.student_id : x \in {y \in records : y.session_id = s}}
           studentsNeedingRecords == reqs[r].snap \ existingStudentIds
       IN  Continue(r, [reqs[r] EXCEPT !.pc = IF studentsNeedingRecords # {} THEN "insert" ELSE "update",
                                       !.snap = [enrolled |-> reqs[r].snap, students |-> studentsNeedingRecords,
                                                 scanned_at |-> now]])
    /\ UNCHANGED <<now, probe, sessions, enrollments, records, activeRotations, intervals, timeouts, issued>>

\* a reconciliation whose rows name no status, so that the column default applies
ReconcileInsert_ColumnDefaults(r) ==
    /\ Reconciling(r) /\ reqs[r].pc = "insert"
    /\ LET s == reqs[r].session
           absentRecords == {Row(s, u, "present", 0, reqs[r].snap.scanned_at, reqs[r].op) :
                               u \in reqs[r].snap.students}
       IN  IF UniqueViolation(absentRecords)
           THEN /\ Finish(r, reqs[r], 500, "duplicate key value violates unique constraint", NULL)
                /\ UNCHANGED <<records, sessions>>
           ELSE /\ records' = records \cup absentRecords
                /\ sessions' = CountTrigger(sessions, records \cup absentRecords, {s})
                /\ Continue(r, [reqs[r] EXCEPT !.pc = "update"])
    /\ UNCHANGED <<now, probe, enrollments, activeRotations, intervals, timeouts, issued>>

\* insert the absent rows in one statement; a failed insert is thrown: the
\* handler answers 500, the timer callback logs it
ReconcileInsert(r) ==
    /\ Reconciling(r) /\ reqs[r].pc = "insert"
    /\ LET s == reqs[r].session
           absentRecords == {Row(s, u, "absent", 0, reqs[r].snap.scanned_at, reqs[r].op) :
                               u \in reqs[r].snap.students}
       IN  IF UniqueViolation(absentRecords)
           THEN /\ Finish(r, reqs[r], 500, "duplicate key value violates unique constraint", NULL)
                /\ UNCHANGED <<records, sessions>>
           ELSE /\ records' = records \cup absentRecords
                /\ sessions' = CountTrigger(sessions, records \cup absentRecords, {s})
                /\ Continue(r, [reqs[r] EXCEPT !.pc = "update"])
    /\ UNCHANGED <<now, probe, enrollments, activeRotations, intervals, timeouts, issued>>

\* update class_sessions by id: completed
CompleteUpdate(r) ==
    /\ Reconciling(r) /\ reqs[r].pc = "update"
    /\ sessions' = [sessions EXCEPT ![reqs[r].session] =
                      [@ EXCEPT !.status = "completed", !.is_active = FALSE, !.qr_expires_at = NULL]]
    /\ Finish(r, reqs[r], IF reqs[r].op = "timeout" THEN 0 ELSE 200, "", NULL)
    /\ UNCHANGED <<now, probe, enrollments, records, activeRotations, intervals, timeouts, issued>>

----------------------------------------------------------------------------
(* Rotation tick: the setInterval callback of startQRCodeRotation           *)

\* the interval fires: generateSecureQR
TickFire(r, i) ==
    /\ Free(r)
    /\ i \in intervals
    /\ now >= i.due
    /\ intervals' = (intervals \ {i}) \cup {[i EXCEPT !.due = @ + RotationIntervalMs]}
    /\ \E n \in Nonces, k \in Secrets :
         LET qrData == generateSecureQR(i.session, now, n, k)
         IN  /\ Continue(r, [NewFrame("tick", "update", i.session) EXCEPT !.qr = {qrData}])
             /\ issued' = issued \cup {qrData.qr_data}
    /\ UNCHANGED <<now, probe, sessions, enrollments, records, activeRotations, timeouts>>

\* the tick's update of class_sessions, by id alone; then the qr_code_update event
TickUpdate(r) ==
    /\ At(r, "tick", "update")
    /\ LET qrData == CHOOSE q \in reqs[r].qr : TRUE
       IN  sessions' = [sessions EXCEPT ![reqs[r].session] =
                          [@ EXCEPT !.qr_secret = {qrData.secret}, !.qr_expires_at = {qrData.expires_at}]]
    /\ Finish(r, reqs[r], 0, "qr_code_update", NULL)
    /\ UNCHANGED <<now, probe, enrollments, records, activeRotations, intervals, timeouts, issued>>

\* GET /api/sessions/:sessionId/qr-code: select the active session, generate a QR
\* code and return it; nothing is stored
GetQrCode(r, s) ==
    /\ Free(r)
    /\ IF sessions[s].status = "active"
       THEN \E n \in Nonces, k \in Secrets :
              LET qrData == generateSecureQR(s, now, n, k)
              IN  /\ Finish(r, NewFrame("qr-code", "start", s), 200, "", [expires_at |-> qrData.expires_at])
                  /\ issued' = issued \cup {qrData.qr_data}
       ELSE /\ Finish(r, NewFrame("qr-code", "start", s), 404, "Session not found or not active", NULL)
            /\ UNCHANGED issued
    /\ UNCHANGED <<now, probe, sessions, enrollments, records, activeRotations, intervals, timeouts>>

----------------------------------------------------------------------------
(* Session endpoints of final-class-api                                    *)

\* PUT /api/sessions/:sessionId with a status in the body: update by id
UpdateSession(r, s, status) ==
    /\ Free(r)
    /\ sessions' = [sessions EXCEPT ![s] = [@ EXCEPT !.status = status]]
    /\ Finish(r, NewFrame("update", "start", s), 200, "", NULL)
    /\ UNCHANGED <<now, probe, enrollments, records, activeRotations, intervals, timeouts, issued>>

\* GET /api/sessions/:sessionId/qr: select the scheduled session
LegacyQrRead(r, s) ==
    /\ Free(r)
    /\ IF sessions[s].status = "scheduled"
       THEN \E k \in Secrets :
              Continue(r, [NewFrame("qr", "update", s) EXCEPT !.snap = [secret |-> k, timestamp |-> now]])
       ELSE Finish(r, NewFrame("qr", "start", s), 404, "Session not found or cancelled", NULL)
    /\ UNCHANGED <<now, probe, sessions, enrollments, records, activeRotations, intervals, timeouts, issued>>

\* GET /api/sessions/:sessionId/qr: update class_sessions by id
LegacyQrUpdate(r) ==
    /\ At(r, "qr", "update")
    /\ sessions' = [sessions EXCEPT ![reqs[r].session] =
                      [@ EXCEPT !.qr_secret = {reqs[r].snap.secret},
                                !.qr_expires_at = {reqs[r].snap.timestamp + 30 * 1000},
                                !.is_active = TRUE, !.status = "active"]]
    /\ Finish(r, reqs[r], 200, "", NULL)
    /\ UNCHANGED <<now, probe, enrollments, records, activeRotations, intervals, timeouts, issued>>

----------------------------------------------------------------------------
(* Enrollment: final-class-api                                             *)

\* POST /api/class-instances/:instanceId/unenroll: update the student's
\* enrollment to dropped; .single() fails when no row was updated
Unenroll(r, u) ==
    /\ Free(r)
    /\ LET frame == [NewFrame("unenroll", "start", "-") EXCEPT !.student = u]
       IN  IF enrollments[u] = "none"
           THEN /\ Finish(r, frame, 500, "JSON object requested, multiple (or no) rows returned", NULL)
                /\ UNCHANGED enrollments
           ELSE /\ enrollments' = [enrollments EXCEPT ![u] = "dropped"]
                /\ Finish(r, frame, 200, "", NULL)
    /\ UNCHANGED <<now, probe, sessions, records, activeRotations, intervals, timeouts, issued>>

----------------------------------------------------------------------------
(* Lateness                                                                *)

MsPerMinute == 1000 * 60

Max(a, b) == IF a >= b THEN a ELSE b

\* scan's lateness with the late test at >= 5 minutes
ScanLateness_GraceOffByOne(currentTime, sessionStartTime) ==
    LET minutesLate == (currentTime - sessionStartTime) \div MsPerMinute
        isLate == minutesLate >= 5
    IN  [status |-> IF isLate THEN "late" ELSE "present",
         minutes_late |-> IF isLate THEN minutesLate ELSE 0,
         response_minutes_late |-> minutesLate]

\* POST /api/attendance/scan: minutesLate, isLate, the inserted status and
\* minutes_late, and the minutes_late of the response
ScanLateness(currentTime, sessionStartTime) ==
    LET minutesLate == (currentTime - sessionStartTime) \div MsPerMinute
        isLate == minutesLate > 5
    IN  [status |-> IF isLate THEN "late" ELSE "present",
         minutes_late |-> IF isLate THEN minutesLate ELSE 0,
         response_minutes_late |-> minutesLate]

\* POST /api/sessions/:sessionId/attendance: minutesLate and status; the
\* response is the inserted row
RecordLateness(currentTime, sessionStart) ==
    LET minutesLate == Max(0, (currentTime - sessionStart) \div MsPerMinute)
    IN  [status |-> IF minutesLate > 5 THEN "late" ELSE "present",
         minutes_late |-> minutesLate,
         response_minutes_late |-> minutesLate]

----------------------------------------------------------------------------
(* Redemption: attendance-api POST /api/attendance/scan                    *)

\* a request body whose qrData is a string JSON.parse rejects
Unparseable == [type |-> "unparseable"]

\* a scan that looks the session up before it validates the QR data
ScanStart_SessionFirst(r, u, qrData) ==
    /\ Free(r)
    /\ LET validation == validateQR(qrData, now)
           frame == [NewFrame("scan", "enrollment", "-") EXCEPT !.student = u]
       IN  IF qrData = Unparseable
           THEN Finish(r, frame, 400, "Invalid QR code format", NULL)
           ELSE IF qrData.sessionId.v \notin AllSessions \/ sessions[qrData.sessionId.v].status # "active"
           THEN Finish(r, [frame EXCEPT !.session = qrData.sessionId.v], 404, "Session not found or not active", NULL)
           ELSE IF ~validation.isValid
           THEN Finish(r, frame, 400, validation.error, NULL)
           ELSE LET sessionId == validation.sessionId.v
                IN  Continue(r, [frame EXCEPT !.session = sessionId, !.qr = {qrData},
                                              !.snap = [attendance_count |-> sessions[sessionId].attendance_count]])
    /\ UNCHANGED <<now, probe, sessions, enrollments, records, activeRotations, intervals, timeouts, issued>>

\* parse and validate the QR data, select the session if it is active
ScanStart(r, u, qrData) ==
    /\ Free(r)
    /\ LET validation == validateQR(qrData, now)
           frame == [NewFrame("scan", "enrollment", "-") EXCEPT !.student = u]
       IN  IF qrData = Unparseable
           THEN Finish(r, frame, 400, "Invalid QR code format", NULL)
           ELSE IF ~validation.isValid
           THEN Finish(r, frame, 400, validation.error, NULL)
           ELSE LET sessionId == validation.sessionId.v
                IN  IF sessionId \in AllSessions /\ sessions[sessionId].status = "active"
                    THEN Continue(r, [frame EXCEPT !.session = sessionId, !.qr = {qrData},
                                                   !.snap = [attendance_count |-> sessions[sessionId].attendance_count]])
                    ELSE Finish(r, [frame EXCEPT !.session = sessionId], 404, "Session not found or not active", NULL)
    /\ UNCHANGED <<now, probe, sessions, enrollments, records, activeRotations, intervals, timeouts, issued>>

\* select the student, then the student's enrollment in the class, of any status
ScanEnrollment(r) ==
    /\ At(r, "scan", "enrollment")
    /\ IF enrollments[reqs[r].student] # "none"
       THEN Continue(r, [reqs[r] EXCEPT !.pc = "existing"])
       ELSE Finish(r, reqs[r], 403, "You are not enrolled in this class", NULL)
    /\ UNCHANGED <<now, probe, sessions, enrollments, records, activeRotations, intervals, timeouts, issued>>

\* a scan that does not look for the student's record before inserting
ScanExisting_NoDuplicateCheck(r) ==
    /\ At(r, "scan", "existing")
    /\ Continue(r, [reqs[r] EXCEPT !.pc = "insert",
                                     !.snap = [attendance_count |-> @.attendance_count,
                                               currentTime |-> now,
                                               lateness |-> ScanLateness(now, SessionStartTime(reqs[r].session))]])
    /\ UNCHANGED <<now, probe, sessions, enrollments, records, activeRotations, intervals, timeouts, issued>>

\* select the student's record for the session; without one, compute the lateness
ScanExisting(r) ==
    /\ At(r, "scan", "existing")
    /\ LET s == reqs[r].session
           u == reqs[r].student
           existingAttendance == {x \in records : x.session_id = s /\ x.student_id = u}
       IN  IF existingAttendance # {}
           THEN Finish(r, reqs[r], 409, "You have already marked attendance for this session",
                       {[id |-> x.id, scanned_at |-> x.scanned_at, status |-> x.status] : x \in existingAttendance})
           ELSE Continue(r, [reqs[r] EXCEPT !.pc = "insert",
                                            !.snap = [attendance_count |-> @.attendance_count,
                                                      currentTime |-> now,
                                                      lateness |-> ScanLateness(now, SessionStartTime(s))]])
    /\ UNCHANGED <<now, probe, sessions, enrollments, records, activeRotations, intervals, timeouts, issued>>

\* insert the record
ScanInsert(r) ==
    /\ At(r, "scan", "insert")
    /\ LET s == reqs[r].session
           row == Row(s, reqs[r].student, reqs[r].snap.lateness.status,
                      reqs[r].snap.lateness.minutes_late, reqs[r].snap.currentTime, "scan")
       IN  IF UniqueViolation({row})
           THEN /\ Finish(r, reqs[r], 500, "Failed to record attendance", NULL)
                /\ UNCHANGED <<records, sessions>>
           ELSE /\ records' = records \cup {row}
                /\ sessions' = CountTrigger(sessions, records \cup {row}, {s})
                /\ Continue(r, [reqs[r] EXCEPT !.pc = "count",
                                                 !.snap = [attendance_count |-> @.attendance_count,
                                                           lateness |-> @.lateness, row |-> row]])
    /\ UNCHANGED <<now, probe, enrollments, activeRotations, intervals, timeouts, issued>>

\* update class_sessions: attendance_count = the count read with the session + 1;
\* then the attendance events, the notification and the response
ScanCount(r) ==
    /\ At(r, "scan", "count")
    /\ sessions' = [sessions EXCEPT ![reqs[r].session] =
                      [@ EXCEPT !.attendance_count = reqs[r].snap.attendance_count + 1]]
    /\ Finish(r, reqs[r], 200, "",
              [id |-> reqs[r].snap.row.id, scanned_at |-> reqs[r].snap.row.scanned_at,
               status |-> reqs[r].snap.row.status,
               minutes_late |-> reqs[r].snap.lateness.response_minutes_late])
    /\ UNCHANGED <<now, probe, enrollments, records, activeRotations, intervals, timeouts, issued>>

----------------------------------------------------------------------------
(* final-class-api POST /api/sessions/:sessionId/attendance                *)

\* select the session with is_active = true and status <> 'cancelled'
RecordStart(r, s, u) ==
    /\ Free(r)
    /\ LET frame == [NewFrame("record", "enrollment", s) EXCEPT !.student = u]
       IN  IF sessions[s].is_active /\ sessions[s].status # "cancelled"
           THEN Continue(r, frame)
           ELSE Finish(r, frame, 400, "Session is not active or cancelled", NULL)
    /\ UNCHANGED <<now, probe, sessions, enrollments, records, activeRotations, intervals, timeouts, issued>>

\* select the student's active enrollment; compute the lateness
RecordEnrollment(r) ==
    /\ At(r, "record", "enrollment")
    /\ IF enrollments[reqs[r].student] = "active"
       THEN Continue(r, [reqs[r] EXCEPT !.pc = "insert",
                                        !.snap = [lateness |-> RecordLateness(now, SessionStartTime(reqs[r].session))]])
       ELSE Finish(r, reqs[r], 400, "Student not enrolled in this class", NULL)
    /\ UNCHANGED <<now, probe, sessions, enrollments, records, activeRotations, intervals, timeouts, issued>>

\* insert the record; scanned_at is the column default NOW()
RecordInsert(r) ==
    /\ At(r, "record", "insert")
    /\ LET s == reqs[r].session
           row == Row(s, reqs[r].student, reqs[r].snap.lateness.status,
                      reqs[r].snap.lateness.minutes_late, now, "record")
       IN  IF UniqueViolation({row})
           THEN /\ Finish(r, reqs[r], 500, "duplicate key value violates unique constraint", NULL)
                /\ UNCHANGED <<records, sessions>>
           ELSE /\ records' = records \cup {row}
                /\ sessions' = CountTrigger(sessions, records \cup {row}, {s})
                /\ Finish(r, reqs[r], 200, "",
                          [id |-> row.id, scanned_at |-> row.scanned_at, status |-> row.status,
                           minutes_late |-> row.minutes_late])
    /\ UNCHANGED <<now, probe, enrollments, activeRotations, intervals, timeouts, issued>>

----------------------------------------------------------------------------
(* Instructor overrides                                                    *)

RecordStatuses == {"present", "late", "absent", "excused"}

Professors == {"p1"}

\* final-class-api PUT /api/attendance/:recordId: update the row by id
OverridePut(r, x, status, by) ==
    /\ Free(r)
    /\ x \in records
    /\ records' = (records \ {x}) \cup
                    {[x EXCEPT !.status = status, !.status_changed_by = {by},
                               !.status_changed_at = {now}, !.status_change_reason = {"reason"}]}
    /\ sessions' = CountTrigger(sessions, records', {x.session_id})
    /\ Finish(r, [NewFrame("override", "start", x.session_id) EXCEPT !.student = x.student_id], 200, "", NULL)
    /\ UNCHANGED <<now, probe, enrollments, activeRotations, intervals, timeouts, issued>>

\* optimized-class-api PATCH /api/sessions/:sessionId/attendance/:studentNumber:
\* select the completed session, then the student
PatchStart(r, s, u, status) ==
    /\ Free(r)
    /\ status \in RecordStatuses
    /\ LET frame == [NewFrame("patch", "existing", s) EXCEPT !.student = u, !.snap = [status |-> status]]
       IN  IF sessions[s].status = "completed"
           THEN Continue(r, frame)
           ELSE Finish(r, frame, 400, "Session not found or not completed", NULL)
    /\ UNCHANGED <<now, probe, sessions, enrollments, records, activeRotations, intervals, timeouts, issued>>

\* select the student's record of the session
PatchExisting(r) ==
    /\ At(r, "patch", "existing")
    /\ LET existingRecord == {x.id : x \in {y \in records : /\ y.session_id = reqs[r].session
                                                             /\ y.student_id = reqs[r].student}}
       IN  Continue(r, [reqs[r] EXCEPT !.pc = "write",
                                       !.snap = [status |-> @.status, existingRecord |-> existingRecord]])
    /\ UNCHANGED <<now, probe, sessions, enrollments, records, activeRotations, intervals, timeouts, issued>>

\* update the record found, or insert a new one
PatchWrite(r) ==
    /\ At(r, "patch", "write")
    /\ LET s == reqs[r].session
           status == reqs[r].snap.status
           row == [Row(s, reqs[r].student, status, 0, now, "patch")
                     EXCEPT !.status_changed_at = {now}, !.status_change_reason = {"Professor manual update"}]
       IN  IF reqs[r].snap.existingRecord # {}
           THEN /\ records' = {IF x.id \in reqs[r].snap.existingRecord
                               THEN [x EXCEPT !.status = status, !.status_changed_at = {now},
                                              !.status_change_reason = {"Professor manual update"}]
                               ELSE x : x \in records}
                /\ sessions' = CountTrigger(sessions, records', {s})
                /\ Finish(r, reqs[r], 200, "Attendance status updated successfully", NULL)
           ELSE IF UniqueViolation({row})
           THEN /\ Finish(r, reqs[r], 500, "duplicate key value violates unique constraint", NULL)
                /\ UNCHANGED <<records, sessions>>
           ELSE /\ records' = records \cup {row}
                /\ sessions' = CountTrigger(sessions, records \cup {row}, {s})
                /\ Finish(r, reqs[r], 200, "Attendance status updated successfully", NULL)
    /\ UNCHANGED <<now, probe, enrollments, activeRotations, intervals, timeouts, issued>>

----------------------------------------------------------------------------
(* Backfill: optimized-class-api POST /api/classes/:classId/backfill-attendance *)

\* a backfill that selects the class's sessions whatever their status
BackfillStart_AnyStatus(r) ==
    /\ Free(r)
    /\ Continue(r, [NewFrame("backfill", "enrollments", "-") EXCEPT !.snap = [sessions |-> AllSessions]])
    /\ UNCHANGED <<now, probe, sessions, enrollments, records, activeRotations, intervals, timeouts, issued>>

\* select the class's completed sessions
BackfillStart(r) ==
    /\ Free(r)
    /\ Continue(r, [NewFrame("backfill", "enrollments", "-")
                      EXCEPT !.snap = [sessions |-> {s \in AllSessions : sessions[s].status = "completed"}]])
    /\ UNCHANGED <<now, probe, sessions, enrollments, records, activeRotations, intervals, timeouts, issued>>

\* the next session of the loop: sessions are ordered by date, s1 before s2
NextSession(todo) == IF "s1" \in todo THEN "s1" ELSE "s2"

\* select the class's active enrollments
BackfillEnrollments(r) ==
    /\ At(r, "backfill", "enrollments")
    /\ LET frame == [reqs[r] EXCEPT !.snap = [sessions |-> @.sessions,
                                              enrolled |-> {u \in Students : enrollments[u] = "active"},
                                              created |-> 0]]
       IN  IF frame.snap.sessions = {}
           THEN Finish(r, frame, 200, "", [records_created |-> 0])
           ELSE Continue(r, [frame EXCEPT !.pc = "records"])
    /\ UNCHANGED <<now, probe, sessions, enrollments, records, activeRotations, intervals, timeouts, issued>>

\* select the records of the loop's session; the students without one become
\* absent rows stamped with the time of this step
BackfillRecords(r) ==
    /\ At(r, "backfill", "records")
    /\ LET s == NextSession(reqs[r].snap.sessions)
           rest == reqs[r].snap.sessions \ {s}
           existingStudentIds == {x.student_id : x \in {y \in records : y.session_id = s}}
           studentsNeedingRecords == reqs[r].snap.enrolled \ existingStudentIds
           frame == [reqs[r] EXCEPT !.session = s]
       IN  IF studentsNeedingRecords # {}
           THEN Continue(r, [frame EXCEPT !.pc = "insert",
                                          !.snap = [sessions |-> @.sessions, enrolled |-> @.enrolled,
                                                    created |-> @.created,
                                                    students |-> studentsNeedingRecords, scanned_at |-> now]])
           ELSE IF rest = {}
           THEN Finish(r, frame, 200, "", [records_created |-> frame.snap.created])
           ELSE Continue(r, [frame EXCEPT !.snap = [sessions |-> rest, enrolled |-> @.enrolled,
                                                    created |-> @.created]])
    /\ UNCHANGED <<now, probe, sessions, enrollments, records, activeRotations, intervals, timeouts, issued>>

\* insert the absent rows of the loop's session in one statement
BackfillInsert(r) ==
    /\ At(r, "backfill", "insert")
    /\ LET s == reqs[r].session
           rest == reqs[r].snap.sessions \ {s}
           absentRecords == {Row(s, u, "absent", 0, reqs[r].snap.scanned_at, "backfill") :
                               u \in reqs[r].snap.students}
           frame == [reqs[r] EXCEPT !.snap = [sessions |-> rest, enrolled |-> @.enrolled,
                                              created |-> @.created + Cardinality(absentRecords)]]
       IN  IF UniqueViolation(absentRecords)
           THEN /\ Finish(r, reqs[r], 500, "duplicate key value violates unique constraint", NULL)
                /\ UNCHANGED <<records, sessions>>
           ELSE /\ records' = records \cup absentRecords
                /\ sessions' = CountTrigger(sessions, records \cup absentRecords, {s})
                /\ IF rest = {}
                   THEN Finish(r, frame, 200, "", [records_created |-> frame.snap.created])
                   ELSE Continue(r, [frame EXCEPT !.pc = "records"])
    /\ UNCHANGED <<now, probe, enrollments, activeRotations, intervals, timeouts, issued>>

----------------------------------------------------------------------------
(* The engine                                                              *)

\* the tokens a client can present: those the server has issued, or no JSON at all
Presentable == issued \cup {Unparseable}

\* the session lifecycle and the rotation scheduler, for the sessions in SS
LifecycleNext(SS) ==
    \/ \E r \in Slots, s \in SS : ActivateRead(r, s)
    \/ \E r \in Slots : ActivateUpdate(r)
    \/ \E r \in Slots, s \in SS : PauseRead(r, s)
    \/ \E r \in Slots : PauseUpdate(r)
    \/ \E r \in Slots, s \in SS : ResumeRead(r, s)
    \/ \E r \in Slots : ResumeUpdate(r)
    \/ \E r \in Slots, s \in SS : Cancel(r, s)
    \/ \E r \in Slots, i \in intervals : TickFire(r, i)
    \/ \E r \in Slots : TickUpdate(r)

\* the hard-timeout callbacks
TimeoutNext ==
    \E r \in Slots, t \in timeouts : TimeoutFire(r, t)

\* completion by request, and the reconciliation it shares with the hard timeout
CompletionNext(SS) ==
    \/ \E r \in Slots, s \in SS : CompleteStart(r, s)
    \/ \E r \in Slots : ReconcileEnrollments(r)
    \/ \E r \in Slots : ReconcileRecords(r)
    \/ \E r \in Slots : ReconcileInsert(r)
    \/ \E r \in Slots : CompleteUpdate(r)

\* the session endpoints of final-class-api
SessionApiNext(SS) ==
    \/ \E r \in Slots, s \in SS, st \in Statuses : UpdateSession(r, s, st)
    \/ \E r \in Slots, s \in SS : LegacyQrRead(r, s)
    \/ \E r \in Slots : LegacyQrUpdate(r)

\* redemption by scan, by the students in UU
ScanNext(UU) ==
    \/ \E r \in Slots, u \in UU, q \in Presentable : ScanStart(r, u, q)
    \/ \E r \in Slots : ScanEnrollment(r)
    \/ \E r \in Slots : ScanExisting(r)
    \/ \E r \in Slots : ScanInsert(r)
    \/ \E r \in Slots : ScanCount(r)

\* final-class-api's recording endpoint, for the students in UU
RecordNext(SS, UU) ==
    \/ \E r \in Slots, s \in SS, u \in UU : RecordStart(r, s, u)
    \/ \E r \in Slots : RecordEnrollment(r)
    \/ \E r \in Slots : RecordInsert(r)

\* the statuses the instructor sets in an override
OverrideStatuses == {"present", "excused"}

\* instructor overrides of the records the students in UU have in the sessions in SS
OverrideNext(SS, UU) ==
    \/ \E r \in Slots, x \in records, st \in OverrideStatuses, p \in Professors :
         x.session_id \in SS /\ x.student_id \in UU /\ OverridePut(r, x, st, p)
    \/ \E r \in Slots, s \in SS, u \in UU, st \in OverrideStatuses : PatchStart(r, s, u, st)
    \/ \E r \in Slots : PatchExisting(r)
    \/ \E r \in Slots : PatchWrite(r)

BackfillNext ==
    \/ \E r \in Slots : BackfillStart(r)
    \/ \E r \in Slots : BackfillEnrollments(r)
    \/ \E r \in Slots : BackfillRecords(r)
    \/ \E r \in Slots : BackfillInsert(r)

Init ==
    /\ now = EngineStartTime
    /\ probe = [op |-> "idle"]
    /\ InitEngine

\* the lifecycle of one session under optimized-class-api: its handlers and its
\* rotation ticks
Next ==
    \/ Advance(RotationIntervalMs)
    \/ LifecycleNext({"s1"})
    \/ CompletionNext({"s1"})

Spec == Init /\ [][Next]_vars

\* one session under both APIs: final-class-api's session endpoints next to
\* optimized-class-api's activate, pause and cancel
NextSessionApi ==
    \/ SessionApiNext({"s1"})
    \/ \E r \in Slots : ActivateRead(r, "s1") \/ ActivateUpdate(r)
    \/ \E r \in Slots : PauseRead(r, "s1") \/ PauseUpdate(r)
    \/ \E r \in Slots : Cancel(r, "s1")

SpecSessionApi == Init /\ [][NextSessionApi]_vars

\* "s1" as activate leaves it when it runs alone at time t, "s2" as
\* PUT /api/sessions/s2 with status completed leaves it
Activated(t) ==
    LET qrData == generateSecureQR("s1", t, "n1", "k1")
    IN  /\ now = t
        /\ probe = [op |-> "idle"]
        /\ sessions = [s \in AllSessions |->
                         IF s = "s1"
                         THEN [status |-> "active", is_active |-> TRUE, qr_secret |-> {qrData.secret},
                               qr_expires_at |-> {qrData.expires_at}, attendance_count |-> 0]
                         ELSE [status |-> "completed", is_active |-> FALSE, qr_secret |-> NULL,
                               qr_expires_at |-> NULL, attendance_count |-> 0]]
        /\ enrollments = [u \in Students |-> "active"]
        /\ records = {}
        /\ activeRotations = [s \in AllSessions |-> IF s = "s1" THEN {1} ELSE NULL]
        /\ intervals = {[id |-> 1, session |-> "s1", due |-> t + RotationIntervalMs]}
        /\ timeouts = {[id |-> 1, session |-> "s1", due |-> t + SessionTimeoutMs]}
        /\ issued = {qrData.qr_data}
        /\ reqs = [r \in Slots |-> Idle]
        /\ response = NoResponse

InitAttendance == Activated(EngineStartTime)

\* attendance recording for one open session: scans, completion by request and
\* by the hard timeout, backfill and overrides
NextAttendance ==
    \/ Advance(SessionTimeoutMs)
    \/ TimeoutNext
    \/ CompletionNext({"s1"})
    \/ ScanNext({"u1"})
    \/ OverrideNext({"s1"}, {"u1"})
    \/ BackfillNext

SpecAttendance == InitAttendance /\ [][NextAttendance]_vars

----------------------------------------------------------------------------
(* Lateness of the records the two recording endpoints create              *)

\* the times a session is opened at, around its scheduled start: whole minutes
\* and the last millisecond of the minute
LateMinutes == {0 - 2, 0, 2, 5, 6}

LateTimes == {SessionStartTime("s1") + m * MsPerMinute + e : m \in LateMinutes, e \in {0, MsPerMinute - 1}}

InitLate == \E t \in LateTimes : Activated(t)

\* "u1" scans the session's token, "u2" is recorded through final-class-api
NextLate ==
    \/ ScanNext({"u1"})
    \/ RecordNext({"s1"}, {"u2"})

SpecLate == InitLate /\ [][NextLate]_vars

----------------------------------------------------------------------------
(* The token codec on its own: a token is issued, possibly altered by its   *)
(* bearer, and verified after some time                                     *)

\* the ages, in ms, at which a token is presented
TokenAges == {0, 1, 29999, 30000, 30001, 60000}

\* what a bearer can make of the token tok issued at t0 by altering one field
Alterations(tok, t0) ==
    [expiryLater    |-> [tok EXCEPT !.expiresAt = IsoString(t0 + SessionTimeoutMs)],
     expiryGarbage  |-> [tok EXCEPT !.expiresAt = Str("garbage")],
     expiryMissing  |-> [tok EXCEPT !.expiresAt = Undefined],
     issuedLater    |-> [tok EXCEPT !.timestamp = Num(t0 + MaxTokenAgeMs)],
     issuedAsString |-> [tok EXCEPT !.timestamp = Str(ToString(t0))],
     otherSession   |-> [tok EXCEPT !.sessionId = Str(IF tok.sessionId.v = "s1" THEN "s2" ELSE "s1")],
     otherNonce     |-> [tok EXCEPT !.nonce = Str("n2")],
     forgedSignature |-> [tok EXCEPT !.signature = Str("forged")]]

AlteredFields ==
    {"expiryLater", "expiryGarbage", "expiryMissing", "issuedLater", "issuedAsString",
     "otherSession", "otherNonce", "forgedSignature"}

\* generateSecureQR(sessionId) at the current time
TokIssue(sessionId) ==
    /\ probe.op = "idle"
    /\ \E n \in Nonces, k \in Secrets :
         probe' = [op |-> "issued", qrData |-> generateSecureQR(sessionId, now, n, k).qr_data,
                   t0 |-> now, altered |-> "none"]
    /\ UNCHANGED <<now, sessions, enrollments, records, activeRotations, intervals, timeouts, issued, reqs, response>>

\* the bearer alters one field of the token
TokAlter(field) ==
    /\ probe.op = "issued"
    /\ probe.altered = "none"
    /\ probe' = [probe EXCEPT !.qrData = Alterations(probe.qrData, probe.t0)[field], !.altered = field]
    /\ UNCHANGED <<now, sessions, enrollments, records, activeRotations, intervals, timeouts, issued, reqs, response>>

\* validateQR(qrData) when the token has reached the age d
TokVerify(d) ==
    /\ probe.op = "issued"
    /\ now' = probe.t0 + d
    /\ probe' = [probe EXCEPT !.op = "verified"] @@ [at |-> now', validation |-> validateQR(probe.qrData, now')]
    /\ UNCHANGED <<sessions, enrollments, records, activeRotations, intervals, timeouts, issued, reqs, response>>

NextToken ==
    \/ \E sessionId \in AllSessions : TokIssue(sessionId)
    \/ \E field \in AlteredFields : TokAlter(field)
    \/ \E d \in TokenAges : TokVerify(d)

SpecToken == Init /\ [][NextToken]_vars

----------------------------------------------------------------------------
(* Claims about the token codec, under SpecToken                           *)

\* C7: a token as issued at t0, with the validity window of 30 s, is accepted by
\* validateQR at every time up to and including t0 + 30 s and rejected at every
\* later time.
C7_ValidityWindow ==
    (probe.op = "verified" /\ probe.altered = "none")
        => (probe.validation.isValid <=> probe.at <= probe.t0 + 30 * 1000)

\* C7's case: an unaltered token presented exactly at the end of its window
C7_AcceptedAtBoundary ==
    /\ probe.op = "verified"
    /\ probe.altered = "none"
    /\ probe.at = probe.t0 + 30 * 1000
    /\ probe.validation.isValid

\* C8: validateQR accepts a token only if the signature recomputed from its
\* session id, issuance timestamp and nonce equals the signature it carries, the
\* time is not past its expiry, and its age is within the 30 s window; so a
\* token whose expiry alone was moved later is rejected once it is too old.
C8_AcceptsOnlyIf ==
    (probe.op = "verified" /\ probe.validation.isValid)
        => /\ probe.qrData.signature =
                 HmacSha256Hex(QR_SECRET, SignedData(probe.qrData.sessionId, probe.qrData.timestamp,
                                                     probe.qrData.nonce))
           /\ probe.qrData.expiresAt.type = "date-string"
           /\ probe.at <= probe.qrData.expiresAt.ms
           /\ probe.qrData.timestamp.type = "number"
           /\ probe.at - probe.qrData.timestamp.v <= 30 * 1000

\* C8's case: the expiry was moved later, the token is older than the window and
\* not yet past the altered expiry, and it is rejected
C8_LaterExpiryRejected ==
    /\ probe.op = "verified"
    /\ probe.altered = "expiryLater"
    /\ probe.at - probe.t0 > 30 * 1000
    /\ probe.at <= probe.qrData.expiresAt.ms
    /\ ~probe.validation.isValid

----------------------------------------------------------------------------
(* Claims about lateness, under SpecLate                                   *)

\* whole minutes from the session's scheduled start to the time of the record x,
\* rounded down
MinutesAfterStart(x) == (x.scanned_at - SessionStartTime(x.session_id)) \div (60 * 1000)

\* the records a student-facing recording operation created
Redeemed == {x \in records : x.created_by \in {"scan", "record"}}

C10_MinutesLateClamped ==
    /\ \A x \in Redeemed :
          x.minutes_late = (IF MinutesAfterStart(x) > 0 THEN MinutesAfterStart(x) ELSE 0)
    /\ (response.op \in {"scan", "record"} /\ response.status = 200)
          => response.body.minutes_late >= 0

----------------------------------------------------------------------------
(* Claims about attendance records, under SpecAttendance                   *)

\* C1: in every reachable state, whatever the interleaving of scans, of the
\* reconciliation of a completion by request or by the hard timeout, of backfill
\* and of instructor overrides, there is at most one attendance record for each
\* (session, student) pair.
C1_OneRecordPerPair ==
    \A x, y \in records : SameKey(x, y) => x = y

\* C1's case: a scan lost the race for its pair, its insert was refused, and the
\* pair has its one record
C1_DuplicateInsertRefused ==
    /\ response.op = "scan"
    /\ response.status = 500
    /\ \E x \in records : x.session_id = response.session /\ x.student_id = response.student

\* C2: while a session is active, of the scans that have passed the token,
\* session and enrollment checks for one (session, student), every one that ends
\* after another scan has created the pair's record ends with AlreadyRecorded
\* (409), never with another kind of error.
C2_LoserGetsAlreadyRecorded ==
    [][\A r \in Slots :
         (/\ reqs[r].op = "scan"
          /\ reqs[r].pc \in {"existing", "insert"}
          /\ sessions[reqs[r].session].status = "active"
          /\ \E x \in records : /\ x.session_id = reqs[r].session
                                 /\ x.student_id = reqs[r].student
                                 /\ x.created_by = "scan"
          /\ reqs'[r] = Idle)
            => response'.status = 409]_vars

----------------------------------------------------------------------------
(* Claims about the session lifecycle, under Spec and SpecSessionApi       *)

LifecycleOps == {"activate", "pause", "resume", "complete", "cancel"}

\* the statuses each transition is listed for
SourceStatuses(op) ==
    CASE op = "activate" -> {"scheduled"}
      [] op = "pause"    -> {"active"}
      [] op = "resume"   -> {"paused"}
      [] op = "complete" -> {"active", "paused"}
      [] op = "cancel"   -> {"scheduled", "active", "paused"}

\* C3: a lifecycle operation requested for a session whose status is not one the
\* transition is listed for fails with PreconditionFailed (400) in the step that
\* takes the request, and leaves the sessions, the rotation registry, the
\* interval timers and the attendance records as they were.
C3_IllegalTransitionFails ==
    [][\A r \in Slots, op \in LifecycleOps, s \in AllSessions :
         (/\ Free(r)
          /\ \/ reqs'[r].op = op /\ reqs'[r].session = s
             \/ reqs' = reqs /\ response'.op = op /\ response'.session = s
          /\ sessions[s].status \notin SourceStatuses(op))
            => /\ response'.op = op
               /\ response'.status = 400
               /\ UNCHANGED <<sessions, activeRotations, intervals, records>>]_vars

\* C4: completed and cancelled are terminal: no step changes the status of a
\* session that is completed or cancelled.
C4_TerminalStatuses ==
    [][\A s \in AllSessions :
         sessions[s].status \in {"completed", "cancelled"}
            => sessions'[s].status = sessions[s].status]_vars

\* C5: in every reachable state, is_active is true if and only if status is active.
C5_ActiveFlagMatchesStatus ==
    \A s \in AllSessions : sessions[s].is_active <=> sessions[s].status = "active"

\* C6: in every reachable state, qr_expires_at is null unless status is active.
C6_ExpiryOnlyWhenActive ==
    \A s \in AllSessions : sessions[s].status # "active" => sessions[s].qr_expires_at = NULL

----------------------------------------------------------------------------
(* The hard timeout of an activated session, next to the requests that end  *)
(* or suspend the session                                                   *)

\* one activated session: the hard timeout, completion by request, cancel and
\* pause
NextTimeout ==
    \/ Advance(SessionTimeoutMs)
    \/ TimeoutNext
    \/ CompletionNext({"s1"})
    \/ \E r \in Slots : Cancel(r, "s1")
    \/ \E r \in Slots : PauseRead(r, "s1") \/ PauseUpdate(r)

SpecTimeout == InitAttendance /\ [][NextTimeout]_vars

\* C11: when the hard-timeout callback fires for a session that is completed or
\* cancelled, the callback ends in that step without an error, and the sessions
\* table (status, is_active, token secret and expiry, counter) and the set of
\* attendance records are as they were: no absent record is inserted.
C11_LateTimeoutIsNoOp ==
    [][\A t \in timeouts :
         (/\ t \notin timeouts'
          /\ sessions[t.session].status \in {"completed", "cancelled"})
            => /\ UNCHANGED <<sessions, records>>
               /\ \A r \in Slots : reqs'[r].op # "timeout"
               /\ response'.op = "timeout"
               /\ response'.status = 0]_vars

\* C11's case: the callback has just fired for a session that a completion by
\* request had completed, with its absent records in place
C11_FiredAfterCompletion ==
    /\ response.op = "timeout"
    /\ response.status = 0
    /\ timeouts = {}
    /\ sessions[response.session].status = "completed"
    /\ \E x \in records : x.session_id = response.session /\ x.created_by = "complete"

----------------------------------------------------------------------------
(* A session left to itself: after the requests that open, pause and resume *)
(* it, only the timers and the store round trips go on                      *)

\* time passes until a pending hard timeout is due
AdvanceToTimeout ==
    /\ \E t \in timeouts : now < t.due /\ now' = t.due
    /\ response' = NoResponse
    /\ UNCHANGED <<probe, sessions, enrollments, records, activeRotations, intervals, timeouts, issued, reqs>>

\* one session opened by activate or by GET /api/sessions/:sessionId/qr, paused
\* and resumed by requests that arrive before its hard timeout has fired, and
\* completed only by the hard timeout
NextUnattended ==
    \/ AdvanceToTimeout
    \/ TimeoutNext
    \/ \E r \in Slots : ReconcileEnrollments(r) \/ ReconcileRecords(r)
    \/ \E r \in Slots : ReconcileInsert(r) \/ CompleteUpdate(r)
    \/ \E r \in Slots : ActivateRead(r, "s1") \/ ActivateUpdate(r)
    \/ \E r \in Slots : LegacyQrRead(r, "s1") \/ LegacyQrUpdate(r)
    \/ \E r \in Slots : (timeouts # {} /\ PauseRead(r, "s1")) \/ PauseUpdate(r)
    \/ \E r \in Slots : (timeouts # {} /\ ResumeRead(r, "s1")) \/ ResumeUpdate(r)

\* timers fire and store calls return: the clock reaches every due time, a due
\* setTimeout callback runs, and every awaited store call of a handler or
\* callback in flight completes; no request is ever owed
TimersFireAndStoreCallsReturn ==
    /\ SF_vars(AdvanceToTimeout)
    /\ SF_vars(TimeoutNext)
    /\ \A r \in Slots :
         /\ WF_vars(ReconcileEnrollments(r))
         /\ WF_vars(ReconcileRecords(r))
         /\ WF_vars(ReconcileInsert(r))
         /\ WF_vars(CompleteUpdate(r))
         /\ WF_vars(ActivateUpdate(r))
         /\ WF_vars(LegacyQrUpdate(r))
         /\ WF_vars(PauseUpdate(r))
         /\ WF_vars(ResumeUpdate(r))

SpecUnattended == Init /\ [][NextUnattended]_vars /\ TimersFireAndStoreCallsReturn

\* C12: whenever a session is active, it is eventually completed or cancelled,
\* given only that timers fire and store calls return: whatever pause and resume
\* requests came before its hard timeout fired, and whether activate or
\* GET /api/sessions/:sessionId/qr made it active.
C12_ActiveReachesTerminal ==
    \A s \in AllSessions :
        (sessions[s].status = "active") ~> (sessions[s].status \in {"completed", "cancelled"})

----------------------------------------------------------------------------
(* Reconciliation at completion, with scans and unenrollments around it     *)

\* the students the instructor unenrolls during the session
Leavers == {"u1"}

\* one open session: "u1" scans and is unenrolled, the session is completed by
\* request and by the hard timeout
NextReconcile ==
    \/ AdvanceToTimeout
    \/ TimeoutNext
    \/ CompletionNext({"s1"})
    \/ ScanNext({"u1"})
    \/ \E r \in Slots, u \in Leavers : Unenroll(r, u)

SpecReconcile == InitAttendance /\ [][NextReconcile]_vars

ActivelyEnrolled == {u \in Students : enrollments[u] = "active"}

RecordsOf(recs, s) == {x \in recs : x.session_id = s}

\* the step in which the completion in slot r inserts its absent records, the
\* enrollments being as the completion read them
ReconciliationInserts(r) ==
    /\ Reconciling(r)
    /\ reqs[r].pc = "insert"
    /\ reqs'[r].op = reqs[r].op
    /\ reqs'[r].pc = "update"
    /\ reqs[r].snap.enrolled = ActivelyEnrolled

C14_SecondReconciliationNoError ==
    [][\A r \in Slots :
         (/\ Reconciling(r)
          /\ reqs[r].pc = "insert"
          /\ reqs'[r] # reqs[r]
          /\ \A x \in RecordsOf(records, reqs[r].session) :
                x.student_id \in reqs[r].snap.students => x.created_by \in {"complete", "timeout"})
            => /\ reqs'[r] # Idle
               /\ \A x, y \in records' : SameKey(x, y) => x = y]_vars

\* C16: a scan by a student whose enrollment in the class is not active (none,
\* or dropped) ends at the enrollment check with NotEnrolled (403) and creates
\* no record.
C16_DroppedStudentRefused ==
    [][\A r \in Slots :
         (/\ At(r, "scan", "enrollment")
          /\ reqs'[r] # reqs[r]
          /\ enrollments[reqs[r].student] # "active")
            => /\ records' = records
               /\ reqs'[r] = Idle
               /\ response'.status = 403]_vars

----------------------------------------------------------------------------
(* Redemption next to the session's pause and cancel                        *)

\* one open session: "u1" and "u2" scan the token it was opened with, and the
\* instructor pauses or cancels
NextRedemption ==
    \/ ScanNext({"u1", "u2"})
    \/ \E r \in Slots : PauseRead(r, "s1") \/ PauseUpdate(r)
    \/ \E r \in Slots : Cancel(r, "s1")

SpecRedemption == InitAttendance /\ [][NextRedemption]_vars

\* C15: a scan whose insert comes when the session is not active (paused,
\* cancelled or completed since the scan read its status) writes no record and
\* ends with SessionNotOpen (404).
C15_InsertOnlyWhileActive ==
    [][\A r \in Slots :
         (/\ At(r, "scan", "insert")
          /\ reqs'[r] # reqs[r]
          /\ sessions[reqs[r].session].status # "active")
            => /\ records' = records
               /\ reqs'[r] = Idle
               /\ response'.status = 404]_vars

\* the records of the pair the scan in slot r is for
PairRecords(r) ==
    {x \in records : x.session_id = reqs[r].session /\ x.student_id = reqs[r].student}

C18_CountMatchesRedemptions ==
    (\A r \in Slots : reqs[r].op # "scan")
        => \A s \in AllSessions :
              sessions[s].attendance_count =
                 Cardinality({x \in RecordsOf(records, s) : x.created_by = "scan"})

----------------------------------------------------------------------------
(* Claims about the rotation scheduler, under Spec                          *)

\* C19: in every reachable state there is at most one live interval timer for
\* each session id, also after two activate or two resume requests for the same
\* session were in flight together.
C19_OneRotationTimerPerSession ==
    \A s \in AllSessions : Cardinality({i \in intervals : i.session = s}) <= 1

\* the statuses a pause, a completion or a cancel that has returned leaves, until
\* a resume succeeds
Halted == {"paused", "completed", "cancelled"}

\* C20: while a session is paused, completed or cancelled, no rotation tick for
\* it takes a step: none fires and issues a token, and none writes the session's
\* token secret and expiry and publishes qr_code_update.
C20_NoTickAfterHalt ==
    [][\A r \in Slots :
         /\ (reqs[r].op # "tick" /\ reqs'[r].op = "tick")
               => sessions[reqs'[r].session].status \notin Halted
         /\ (reqs[r].op = "tick" /\ reqs'[r] # reqs[r])
               => sessions[reqs[r].session].status \notin Halted]_vars

----------------------------------------------------------------------------
(* Claims about concurrent lifecycle requests, under Spec                   *)

\* C21: of two concurrent activate (or resume) requests for one session, the one
\* that comes to its write when the other has already made the session active
\* fails with PreconditionFailed (400) and has no side effect: it leaves the
\* session row, the rotation registry, the interval timers and the pending
\* hard timeouts as they were.
C21_SecondWriterFails ==
    [][\A r \in Slots :
         (/\ reqs[r].op \in {"activate", "resume"}
          /\ reqs[r].pc = "update"
          /\ reqs'[r] # reqs[r]
          /\ sessions[reqs[r].session].status = "active")
            => /\ response'.status = 400
               /\ UNCHANGED <<sessions, activeRotations, intervals, timeouts>>]_vars

----------------------------------------------------------------------------
(* The tokens a redemption accepts, next to the operations that issue them  *)

\* one open session within its first rotation interval: the instructor's page
\* fetches QR codes, the session is paused and resumed, and "u1" scans
NextCurrentToken ==
    \/ Advance(RotationIntervalMs \div 2)
    \/ ScanNext({"u1"})
    \/ \E r \in Slots : GetQrCode(r, "s1")
    \/ \E r \in Slots : PauseRead(r, "s1") \/ PauseUpdate(r)
    \/ \E r \in Slots : ResumeRead(r, "s1") \/ ResumeUpdate(r)

SpecCurrentToken == InitAttendance /\ [][NextCurrentToken]_vars

\* C22: every token a scan accepts is the current token of its session, the one
\* whose expiry the session row stores: neither a token that a resume or a tick
\* has replaced nor a token that was never stored is accepted.
C22_OnlyCurrentTokenAccepted ==
    [][\A r \in Slots :
         (reqs[r] = Idle /\ reqs'[r].op = "scan")
            => \A q \in reqs'[r].qr :
                  sessions[reqs'[r].session].qr_expires_at = {q.expiresAt.ms}]_vars

----------------------------------------------------------------------------
(* Claims about what a record of presence rests on, under SpecLate          *)

\* C23: every step of a student-facing operation (the scan, or
\* POST /api/sessions/:sessionId/attendance) that creates a present or late
\* record belongs to an operation that has verified a token: the operation holds
\* a token with a genuine signature, bound to the record's session.
C23_RecordRestsOnVerifiedToken ==
    [][\A r \in Slots :
         (/\ reqs[r].op \in {"scan", "record"}
          /\ reqs'[r] # reqs[r]
          /\ \E x \in records' \ records : x.status \in {"present", "late"})
            => \E q \in reqs[r].qr :
                  /\ q.sessionId.v = reqs[r].session
                  /\ q.signature = HmacSha256Hex(QR_SECRET, SignedData(q.sessionId, q.timestamp, q.nonce))]_vars

----------------------------------------------------------------------------
(* Redemption of tokens that fail verification                              *)

\* what a client can make of the tokens it was shown: the signature replaced,
\* or the expiry moved an hour later
Tampered ==
    {Alterations(q, q.timestamp.v)[f] : q \in issued, f \in {"forgedSignature", "expiryLater"}}

\* one open session: "u1" scans genuine and tampered tokens, at once or an hour
\* later
NextVerify ==
    \/ Advance(SessionTimeoutMs)
    \/ ScanNext({"u1"})
    \/ \E r \in Slots, q \in Tampered : ScanStart(r, "u1", q)

SpecVerify == InitAttendance /\ [][NextVerify]_vars

\* the tokens in a client's hands that validateQR rejects now
Failing == {q \in issued \cup Tampered : ~validateQR(q, now).isValid}

\* C24: when a scan has just been refused because its token failed verification,
\* the response is the one any other failing token would get at that moment: the
\* client cannot tell an expired token from an old or a forged one.
C24_OneInvalidTokenOutcome ==
    (/\ response.op = "scan"
     /\ response.status = 400
     /\ response.error # "Invalid QR code format")
        => \A q \in Failing : validateQR(q, now).error = response.error

----------------------------------------------------------------------------
(* Claims about the effects of cancel, pause and activate, under Spec       *)

\* the step in which a request op for session s, taken in one step, is answered
Answered(op, s) ==
    /\ reqs' = reqs
    /\ response'.op = op
    /\ response'.session = s

\* C25: a cancel of a scheduled, active or paused session succeeds and leaves
\* the session cancelled with no live rotation timer and no token (neither
\* secret nor expiry), and the attendance records as they were.
C25_CancelEffects ==
    [][\A s \in AllSessions :
         (Answered("cancel", s) /\ sessions[s].status \in {"scheduled", "active", "paused"})
            => /\ response'.status = 200
               /\ sessions'[s].status = "cancelled"
               /\ activeRotations'[s] = NULL
               /\ \A i \in intervals' : i.session # s
               /\ sessions'[s].qr_secret = NULL
               /\ sessions'[s].qr_expires_at = NULL
               /\ records' = records]_vars

\* C26: a pause that succeeds leaves the session paused with no rotation timer
\* registered and no token (neither secret nor expiry), and leaves the pending
\* hard-timeout callbacks registered.
C26_PauseEffects ==
    [][\A r \in Slots :
         (At(r, "pause", "update") /\ reqs'[r] = Idle /\ response'.status = 200)
            => LET s == reqs[r].session
               IN  /\ sessions'[s].status = "paused"
                   /\ activeRotations'[s] = NULL
                   /\ sessions'[s].qr_secret = NULL
                   /\ sessions'[s].qr_expires_at = NULL
                   /\ timeouts' = timeouts]_vars

----------------------------------------------------------------------------
(* Claims about the hard timeout of a paused session, under SpecTimeout    *)

\* C27: when a hard-timeout callback fires while its session is paused, the
\* callback goes on to complete the session as it does for an active one: it
\* starts the reconciliation that ends in the status completed.
C27_PausedSessionTimesOut ==
    [][\A t \in timeouts :
         (t \notin timeouts' /\ sessions[t.session].status = "paused")
            => \E r \in Slots : /\ reqs[r] = Idle
                                /\ reqs'[r].op = "timeout"
                                /\ reqs'[r].session = t.session]_vars

----------------------------------------------------------------------------
(* Claims about a redemption racing the reconciliation, under SpecReconcile *)

\* the students for whom the completion in slot r is about to insert an absent
\* record although a redemption has committed a record since the completion read
\* the session's records
RedeemedSinceRead(r) ==
    {u \in reqs[r].snap.students :
        \E x \in RecordsOf(records, reqs[r].session) :
            x.student_id = u /\ x.created_by = "scan" /\ x.status \in {"present", "late"}}

\* C28: when a redemption has committed between a completion's read of the
\* records and its insert, the insert still succeeds: the completion goes on to
\* mark the session completed, the redeeming student keeps exactly the
\* present/late record, and every other student the completion found without a
\* record receives an absent one.
C28_RedemptionDuringReconciliation ==
    [][\A r \in Slots :
         (/\ Reconciling(r)
          /\ reqs[r].pc = "insert"
          /\ reqs'[r] # reqs[r]
          /\ RedeemedSinceRead(r) # {})
            => /\ reqs'[r].pc = "update"
               /\ \A u \in reqs[r].snap.students :
                    LET mine == {x \in RecordsOf(records', reqs[r].session) : x.student_id = u}
                    IN  /\ Cardinality(mine) = 1
                        /\ \A x \in mine : IF u \in RedeemedSinceRead(r)
                                           THEN x \in records
                                           ELSE x.status = "absent"]_vars

----------------------------------------------------------------------------
(* Claims about the rotation registry, under SpecUnattended                 *)

\* C29: whenever no operation is in progress, the rotation registry holds a
\* timer for a session exactly when that session's status is active.
C29_RegisteredIffActive ==
    (\A r \in Slots : reqs[r] = Idle)
        => \A s \in AllSessions : (activeRotations[s] # NULL) <=> (sessions[s].status = "active")

----------------------------------------------------------------------------
(* Claims about what activate leaves behind                                 *)

\* two scheduled sessions under optimized-class-api: both are activated, by
\* overlapping requests too, while time passes; "s1" is paused and cancelled
NextActivation ==
    \/ Advance(RotationIntervalMs)
    \/ \E r \in Slots, s \in AllSessions : ActivateRead(r, s)
    \/ \E r \in Slots : ActivateUpdate(r)
    \/ \E r \in Slots : PauseRead(r, "s1") \/ PauseUpdate(r)
    \/ \E r \in Slots : Cancel(r, "s1")

SpecActivation == Init /\ [][NextActivation]_vars

\* C30: an activate that succeeds on a scheduled session leaves the session
\* with status active and is_active true, stores the token it issued, with its
\* secret and with expiry = the token's issuance time + 30 s, registers a
\* rotation timer for the session id firing 30 s later, and registers exactly
\* one hard-timeout callback, due one hour later, the only one pending for the
\* session: no operation of optimized-class-api returns a session to scheduled.
C30_ActivateEffects ==
    [][\A r \in Slots :
         (/\ At(r, "activate", "update")
          /\ reqs'[r] = Idle
          /\ response'.status = 200
          /\ sessions[reqs[r].session].status = "scheduled")
            => LET s == reqs[r].session
                   qrData == CHOOSE q \in reqs[r].qr : TRUE
               IN  /\ sessions'[s].status = "active"
                   /\ sessions'[s].is_active = TRUE
                   /\ qrData.qr_data \in issued
                   /\ sessions'[s].qr_secret = {qrData.secret}
                   /\ sessions'[s].qr_expires_at = {qrData.qr_data.timestamp.v + 30 * 1000}
                   /\ activeRotations'[s] # NULL
                   /\ \A id \in activeRotations'[s] :
                        \E i \in intervals' \ intervals :
                            i.id = id /\ i.session = s /\ i.due = now + 30 * 1000
                   /\ \E t \in timeouts' :
                        /\ timeouts' \ timeouts = {t}
                        /\ t.session = s
                        /\ t.due = now + 60 * 60 * 1000
                        /\ {x \in timeouts' : x.session = s} = {t}]_vars

\* an activate of the scheduled session has just succeeded, some time after it
\* issued its token
C30_Activated ==
    /\ response.op = "activate"
    /\ response.status = 200
    /\ sessions[response.session].status = "active"
    /\ Cardinality(timeouts) = 1
    /\ \E t \in timeouts : t.session = response.session /\ t.due = now + 60 * 60 * 1000
    /\ \E e \in sessions[response.session].qr_expires_at : e < now + 30 * 1000

----------------------------------------------------------------------------
(* Claims about the hard timeout across pause/resume cycles                 *)

\* one activated session under optimized-class-api: paused and resumed any
\* number of times, while time passes to the hard timeout and the timeout fires
NextCycles ==
    \/ AdvanceToTimeout
    \/ TimeoutNext
    \/ \E r \in Slots : ReconcileEnrollments(r) \/ ReconcileRecords(r)
    \/ \E r \in Slots : ReconcileInsert(r) \/ CompleteUpdate(r)
    \/ \E r \in Slots : PauseRead(r, "s1") \/ PauseUpdate(r)
    \/ \E r \in Slots : ResumeRead(r, "s1") \/ ResumeUpdate(r)

SpecCycles == InitAttendance /\ [][NextCycles]_vars

\* C31: a resume that succeeds on a paused session stores the token it issued
\* (expiry = issuance + 30 s), registers a rotation timer for the session and
\* marks it active, and registers no hard timeout; through every pause and
\* resume the activation's hard timeout stays the only one, due one hour after
\* the activation, until it fires, never before that time: no pause or resume
\* adds, removes or re-arms one.
C31_ResumeKeepsTheTimeout ==
    [][/\ \A r \in Slots :
            (/\ At(r, "resume", "update")
             /\ reqs'[r] = Idle
             /\ response'.status = 200
             /\ sessions[reqs[r].session].status = "paused")
               => LET s == reqs[r].session
                      qrData == CHOOSE q \in reqs[r].qr : TRUE
                  IN  /\ sessions'[s].status = "active"
                      /\ sessions'[s].is_active = TRUE
                      /\ qrData.qr_data \in issued
                      /\ sessions'[s].qr_secret = {qrData.secret}
                      /\ sessions'[s].qr_expires_at = {qrData.qr_data.timestamp.v + 30 * 1000}
                      /\ activeRotations'[s] # NULL
                      /\ \A id \in activeRotations'[s] :
                           \E i \in intervals' \ intervals : i.id = id /\ i.session = s
                      /\ timeouts' = timeouts
       /\ timeouts' # timeouts
            => \E r \in Slots, t \in timeouts :
                    /\ reqs[r] = Idle
                    /\ reqs'[r].op = "timeout" \/ response'.op = "timeout"
                    /\ timeouts' = timeouts \ {t}
                    /\ now >= t.due
       /\ Cardinality(timeouts') <= 1
       /\ \A t \in timeouts' : t.session = "s1" /\ t.due = EngineStartTime + 60 * 60 * 1000]_vars

\* a resume has just succeeded and restarted the rotation, with the activation's
\* one hard timeout still pending
C31_ResumedWithTimeoutPending ==
    /\ response.op = "resume"
    /\ response.status = 200
    /\ sessions[response.session].status = "active"
    /\ Cardinality(timeouts) = 1
    /\ \E t \in timeouts : t.session = response.session /\ now < t.due
    /\ activeRotations[response.session] # NULL

----------------------------------------------------------------------------
(* Claims about the redemptions that are refused                            *)

\* the student with no enrollment in the class
Outsider == "u3"

\* "s1" active as activate left it; "u3" was never enrolled in its class
InitOutsider ==
    LET qrData == generateSecureQR("s1", EngineStartTime, "n1", "k1")
    IN  /\ now = EngineStartTime
        /\ probe = [op |-> "idle"]
        /\ sessions = [s \in AllSessions |->
                         IF s = "s1"
                         THEN [status |-> "active", is_active |-> TRUE, qr_secret |-> {qrData.secret},
                               qr_expires_at |-> {qrData.expires_at}, attendance_count |-> 0]
                         ELSE [status |-> "completed", is_active |-> FALSE, qr_secret |-> NULL,
                               qr_expires_at |-> NULL, attendance_count |-> 0]]
        /\ enrollments = [u \in Students |-> IF u = Outsider THEN "none" ELSE "active"]
        /\ records = {}
        /\ activeRotations = [s \in AllSessions |-> IF s = "s1" THEN {1} ELSE NULL]
        /\ intervals = {[id |-> 1, session |-> "s1", due |-> EngineStartTime + RotationIntervalMs]}
        /\ timeouts = {[id |-> 1, session |-> "s1", due |-> EngineStartTime + SessionTimeoutMs]}
        /\ issued = {qrData.qr_data}
        /\ reqs = [r \in Slots |-> Idle]
        /\ response = NoResponse

\* one open session that is paused at some point: "u1" and the outsider "u3"
\* scan the issued token, no JSON at all, and tampered tokens
NextRefusals ==
    \/ ScanNext({"u1", Outsider})
    \/ \E r \in Slots, q \in Tampered : ScanStart(r, "u1", q)
    \/ \E r \in Slots : PauseRead(r, "s1") \/ PauseUpdate(r)

SpecRefusals == InitOutsider /\ [][NextRefusals]_vars

\* the session a token names is open
Open(q) ==
    /\ q.sessionId.v \in AllSessions
    /\ sessions[q.sessionId.v].status = "active"

\* C32: a scan that ends in an error leaves the attendance records and the
\* session rows (attendance_count and lifecycle fields) unchanged, and ends
\* before the step that emits the attendance events; a scan that has written
\* always ends in success. The checks come in the order parse, verify, session
\* open, enrollment, duplicate: an unparseable or invalid token is refused with
\* 400 whatever the session's state, a valid token for a session that is not
\* active with 404, and only then the missing enrollment with 403 and the
\* existing record with 409.
C32_RefusalsLeaveNoTrace ==
    [][/\ (response'.op = "scan" /\ response'.status # 200)
            => /\ records' = records
               /\ sessions' = sessions
               /\ \A r \in Slots : (reqs[r].op = "scan" /\ reqs'[r] = Idle) => reqs[r].pc # "count"
       /\ \A r \in Slots :
            (reqs[r].op = "scan" /\ reqs'[r] # reqs[r] /\ (records' # records \/ sessions' # sessions))
               => \/ reqs[r].pc = "insert" /\ reqs'[r].op = "scan" /\ reqs'[r].pc = "count"
                  \/ reqs[r].pc = "count" /\ response'.op = "scan" /\ response'.status = 200
       /\ \A r \in Slots, u \in Students, q \in Presentable \cup Tampered :
            ScanStart(r, u, q)
               => IF q = Unparseable \/ ~validateQR(q, now).isValid
                  THEN response'.op = "scan" /\ response'.status = 400
                  ELSE IF ~Open(q)
                  THEN response'.op = "scan" /\ response'.status = 404
                  ELSE reqs'[r].op = "scan" /\ reqs'[r].pc = "enrollment"
       /\ \A r \in Slots :
            (reqs[r].op = "scan" /\ reqs'[r] = Idle /\ response'.status # 200)
               => \/ /\ reqs[r].pc = "enrollment"
                     /\ response'.status = 403
                     /\ enrollments[reqs[r].student] = "none"
                  \/ /\ reqs[r].pc = "existing"
                     /\ response'.status = 409
                     /\ enrollments[reqs[r].student] # "none"
                     /\ \E x \in records : x.session_id = reqs[r].session /\ x.student_id = reqs[r].student
                  \/ /\ reqs[r].pc = "insert"
                     /\ response'.status = 500]_vars

\* the outsider has just been refused after a record was made, the session's
\* count standing at one
C32_OutsiderRefused ==
    /\ response.op = "scan"
    /\ response.status = 403
    /\ response.student = Outsider
    /\ records # {}
    /\ sessions["s1"].attendance_count = 1

----------------------------------------------------------------------------
(* Claims about the fields of a token, under SpecFields                     *)

\* what a bearer can make of the token tok by removing one field or by sending
\* it as a value of another type
Malformations(tok) ==
    [sessionMissing   |-> [tok EXCEPT !.sessionId = Undefined],
     issuedMissing    |-> [tok EXCEPT !.timestamp = Undefined],
     nonceMissing     |-> [tok EXCEPT !.nonce = Undefined],
     signatureMissing |-> [tok EXCEPT !.signature = Undefined],
     sessionEmpty     |-> [tok EXCEPT !.sessionId = Str("")],
     issuedZero       |-> [tok EXCEPT !.timestamp = Num(0)],
     signatureAsArray |-> [tok EXCEPT !.signature = ArrayOf(tok.signature.v)],
     sessionAsArray   |-> [tok EXCEPT !.sessionId = ArrayOf(tok.sessionId.v)],
     nonceAsArray     |-> [tok EXCEPT !.nonce = ArrayOf(tok.nonce.v)]]

MalformedFields ==
    {"sessionMissing", "issuedMissing", "nonceMissing", "signatureMissing", "sessionEmpty",
     "issuedZero", "signatureAsArray", "sessionAsArray", "nonceAsArray"}

\* the bearer removes or retypes one field of the token
TokMalform(field) ==
    /\ probe.op = "issued"
    /\ probe.altered = "none"
    /\ probe' = [probe EXCEPT !.qrData = Malformations(probe.qrData)[field], !.altered = field]
    /\ UNCHANGED <<now, sessions, enrollments, records, activeRotations, intervals, timeouts, issued, reqs, response>>

NextFields ==
    \/ \E sessionId \in AllSessions : TokIssue(sessionId)
    \/ \E field \in AlteredFields : TokAlter(field)
    \/ \E field \in MalformedFields : TokMalform(field)
    \/ \E d \in TokenAges : TokVerify(d)

SpecFields == Init /\ [][NextFields]_vars

\* C33: validateQR rejects, at every age, a token in which the session id, the
\* issuance timestamp, the nonce, the signature or the expiry is absent or is
\* not a value of the field's form, and a token whose session id, issuance
\* timestamp or nonce is not the one that was signed.
C33_AlteredTokenRejected ==
    (probe.op = "verified" /\ probe.altered \in
        (MalformedFields \cup {"expiryGarbage", "expiryMissing", "issuedAsString",
                               "otherSession", "otherNonce", "issuedLater"}))
        => ~probe.validation.isValid

----------------------------------------------------------------------------
(* Claims about instructor overrides, under SpecAttendance                  *)

\* C34: a record changes after its creation only through an instructor override
\* and only once: the record changed had not been overridden before, the change
\* leaves it with who changed it, when and why, and no (session, student) pair
\* ever has two records.
C34_OneAuditedOverride ==
    [][/\ \A x \in records, y \in records' :
            (y.id = x.id /\ y # x)
               => /\ response'.op \in {"override", "patch"}
                  /\ x.status_changed_at = NULL
                  /\ y.status_changed_by # NULL
                  /\ y.status_changed_at # NULL
                  /\ y.status_change_reason # NULL
       /\ \A y \in records', z \in records' : SameKey(y, z) => y = z]_vars

----------------------------------------------------------------------------
(* Claims about attendance_count, under SpecReconcile                       *)

\* C35: a session's attendance_count changes only in a step of a redemption that
\* succeeds in recording the student; the insertion of absent records by a
\* completion, and every other operation, leave it as it was.
C35_CountChangesOnlyByRedemption ==
    [][\A s \in AllSessions :
         sessions'[s].attendance_count # sessions[s].attendance_count
            => \E r \in Slots : /\ reqs[r].op = "scan"
                                /\ reqs[r].session = s
                                /\ reqs[r].pc \in {"insert", "count"}
                                /\ reqs'[r] # reqs[r]]_vars

----------------------------------------------------------------------------
(* Claims about two sessions side by side                                   *)

\* how long after "s1" the session s was activated
ActivatedAfter(s) == IF s = "s1" THEN 0 ELSE RotationIntervalMs \div 2

\* both sessions shortly before their hard timeouts: "s1" one rotation interval
\* before its own, "s2" activated half an interval after "s1"; each with the
\* token its last tick stored, its rotation timer and its hard timeout
InitTwoSessions ==
    LET lastTick(s) == EngineStartTime + ActivatedAfter(s) - RotationIntervalMs
        qrData(s) == generateSecureQR(s, IF s = "s1" THEN EngineStartTime ELSE lastTick(s), "n1", "k1")
    IN  /\ now = EngineStartTime
        /\ probe = [op |-> "idle"]
        /\ sessions = [s \in AllSessions |->
                         [status |-> "active", is_active |-> TRUE, qr_secret |-> {qrData(s).secret},
                          qr_expires_at |-> {qrData(s).expires_at}, attendance_count |-> 0]]
        /\ enrollments = [u \in Students |-> "active"]
        /\ records = {}
        /\ activeRotations = [s \in AllSessions |-> IF s = "s1" THEN {1} ELSE {2}]
        /\ intervals = {[id |-> IF s = "s1" THEN 1 ELSE 2, session |-> s,
                         due |-> lastTick(s) + RotationIntervalMs + (IF s = "s1" THEN RotationIntervalMs ELSE 0)] :
                            s \in AllSessions}
        /\ timeouts = {[id |-> IF s = "s1" THEN 1 ELSE 2, session |-> s,
                        due |-> EngineStartTime + RotationIntervalMs + ActivatedAfter(s)] : s \in AllSessions}
        /\ issued = {qrData(s).qr_data : s \in AllSessions}
        /\ reqs = [r \in Slots |-> Idle]
        /\ response = NoResponse

\* the tokens on display when the engine starts
Displayed == {q \in issued : q.timestamp.v <= EngineStartTime}

\* two open sessions of the class, each rotated by its own timer and ended by
\* its own hard timeout; "s1" is also paused, and "u1" redeems the tokens the two
\* sessions display
NextTwoSessions ==
    \/ Advance(RotationIntervalMs)
    \/ TimeoutNext
    \/ \E r \in Slots, i \in intervals : TickFire(r, i)
    \/ \E r \in Slots : TickUpdate(r)
    \/ \E r \in Slots : PauseRead(r, "s1") \/ PauseUpdate(r)
    \/ \E r \in Slots : ReconcileEnrollments(r) \/ ReconcileRecords(r)
    \/ \E r \in Slots : ReconcileInsert(r) \/ CompleteUpdate(r)
    \/ \E r \in Slots, q \in Displayed : ScanStart(r, "u1", q)
    \/ \E r \in Slots : ScanEnrollment(r) \/ ScanExisting(r)
    \/ \E r \in Slots : ScanInsert(r) \/ ScanCount(r)

SpecTwoSessions == InitTwoSessions /\ [][NextTwoSessions]_vars

\* the sessions whose handler, callback or request takes the step
Acting ==
    {reqs'[r].session : r \in {q \in Slots : reqs'[q] # reqs[q] /\ reqs'[q] # Idle}}
        \cup {reqs[r].session : r \in {q \in Slots : reqs'[q] # reqs[q] /\ reqs[q] # Idle}}
        \cup (IF response'.op = "none" THEN {} ELSE {response'.session})

\* what the store and the scheduler hold for session s
Holding(s, tbl, recs, rot, ivs, tos) ==
    [row |-> tbl[s], records |-> RecordsOf(recs, s), rotation |-> rot[s],
     intervals |-> {i \in ivs : i.session = s}, timeouts |-> {t \in tos : t.session = s}]

----------------------------------------------------------------------------
(* Claims about backfill                                                    *)

\* the class with "s1" open and "s2" completed without records: backfills run,
\* alone and overlapping, while "s1" is completed by request and the instructor
\* overrides "u1"'s attendance of "s2"
NextBackfill ==
    \/ BackfillNext
    \/ CompletionNext({"s1"})
    \/ OverrideNext({"s2"}, {"u1"})

SpecBackfill == InitAttendance /\ [][NextBackfill]_vars

\* the (completed session, actively-enrolled student) pairs without a record
Uncovered ==
    {<<s, u>> \in AllSessions \X Students :
        /\ sessions[s].status = "completed"
        /\ enrollments[u] = "active"
        /\ \A x \in records : ~(x.session_id = s /\ x.student_id = u)}

\* C37: when a backfill inserts, it inserts for one completed session exactly one
\* absent record for each actively-enrolled student that has none, leaving the
\* existing records and every other session row as they were; no other step of
\* a backfill writes at all; a backfill that ends successfully leaves no
\* (completed session, actively-enrolled student) pair without a record, and
\* once there is none no backfill creates a record: a second run creates zero.
C37_BackfillFillsTheGaps ==
    [][\A r \in Slots :
         (reqs[r].op = "backfill" /\ reqs'[r] # reqs[r])
            => /\ (records' # records \/ sessions' # sessions)
                    => LET s == reqs[r].session
                       IN  /\ reqs[r].pc = "insert"
                           /\ sessions[s].status = "completed"
                           /\ records \subseteq records'
                           /\ {<<x.session_id, x.student_id>> : x \in records' \ records}
                                 = {p \in Uncovered : p[1] = s}
                           /\ Cardinality(records' \ records) = Cardinality({p \in Uncovered : p[1] = s})
                           /\ \A x \in records' \ records : x.status = "absent"
                           /\ \A q \in AllSessions \ {s} : sessions'[q] = sessions[q]
                           /\ [sessions'[s] EXCEPT !.attendance_count = 0]
                                 = [sessions[s] EXCEPT !.attendance_count = 0]
               /\ (reqs'[r] = Idle /\ response'.status = 200) => Uncovered' = {}
               /\ Uncovered = {} => records' = records]_vars

\* a backfill has just ended having created nothing, after an earlier one
\* created the records of "s2"
C37_SecondRunCreatedNone ==
    /\ response.op = "backfill"
    /\ response.status = 200
    /\ response.body.records_created = 0
    /\ \E x \in records : x.created_by = "backfill"
    /\ \A r \in Slots : reqs[r] = Idle

----------------------------------------------------------------------------
(* The rotating code of GET /api/sessions/:sessionId/qr-code-legacy        *)

\* the width of a bucket of generateRotatingQR, in ms
RotatingBucketMs == 30000

\* generateRotatingQR with the bucket rounded up, not down
generateRotatingQR_RoundedUp(sessionId, t) ==
    LET timestamp == ((t + RotatingBucketMs - 1) \div RotatingBucketMs) * RotatingBucketMs
        data == TemplateString(Str(sessionId)) \o ":" \o TemplateString(Num(timestamp))
    IN  [secret |-> HmacSha256Hex(QR_SECRET, data), expires_at |-> IsoString(timestamp + 30000),
         data |-> data, sessionId |-> sessionId, timestamp |-> timestamp]

\* generateRotatingQR(sessionId) with Date.now() = t
generateRotatingQR(sessionId, t) ==
    LET timestamp == (t \div RotatingBucketMs) * RotatingBucketMs
        data == TemplateString(Str(sessionId)) \o ":" \o TemplateString(Num(timestamp))
    IN  [secret |-> HmacSha256Hex(QR_SECRET, data), expires_at |-> IsoString(timestamp + 30000),
         data |-> data, sessionId |-> sessionId, timestamp |-> timestamp]

\* the times of the calls: the start of the bucket the engine starts in, 1 ms
\* after it, the engine's start, the bucket's last ms, and the same in the next
\* bucket
CallTimes ==
    LET bucket == (EngineStartTime \div RotatingBucketMs) * RotatingBucketMs
    IN  {bucket + k * RotatingBucketMs + d :
            k \in {0, 1}, d \in {0, 1, EngineStartTime - bucket, RotatingBucketMs - 1}}

\* generateQRCode(sessionId) at the time t
RotatingCall(sessionId, t) ==
    /\ probe.op = "idle"
    /\ now' = t
    /\ probe' = [op |-> "rotating", first |-> generateRotatingQR(sessionId, t), at |-> t]
    /\ UNCHANGED <<sessions, enrollments, records, activeRotations, intervals, timeouts, issued, reqs, response>>

\* a second call, at the same time or later
RotatingCallAgain(sessionId, t) ==
    /\ probe.op = "rotating"
    /\ t >= now
    /\ now' = t
    /\ probe' = [op |-> "rotated", first |-> probe.first, at |-> probe.at,
                 second |-> generateRotatingQR(sessionId, t), again |-> t]
    /\ UNCHANGED <<sessions, enrollments, records, activeRotations, intervals, timeouts, issued, reqs, response>>

NextRotating ==
    \/ \E sessionId \in AllSessions, t \in CallTimes : RotatingCall(sessionId, t)
    \/ \E sessionId \in AllSessions, t \in CallTimes : RotatingCallAgain(sessionId, t)

SpecRotating == Init /\ [][NextRotating]_vars

\* C38: two calls of generateRotatingQR for the same session id at times in the
\* same 30-second bucket [30000 k, 30000 (k + 1)) return the same timestamp,
\* secret and expires_at; the expires_at of a call is the start of its bucket
\* + 30 s, strictly later than the time of the call and at most 30 s after it.
C38_SameCodeWithinBucket ==
    probe.op = "rotated"
        => /\ (/\ probe.first.sessionId = probe.second.sessionId
               /\ probe.at \div 30000 = probe.again \div 30000)
                  => /\ probe.first.timestamp = probe.second.timestamp
                     /\ probe.first.secret = probe.second.secret
                     /\ probe.first.expires_at = probe.second.expires_at
           /\ \A c \in {<<probe.first, probe.at>>, <<probe.second, probe.again>>} :
                /\ c[1].expires_at.ms = 30000 * (c[2] \div 30000) + 30000
                /\ c[1].expires_at.ms > c[2]
                /\ c[1].expires_at.ms - c[2] <= 30000

\* two calls for the same session at the first and at the last ms of one bucket
C38_BothEndsOfBucket ==
    /\ probe.op = "rotated"
    /\ probe.first.sessionId = probe.second.sessionId
    /\ probe.at % 30000 = 0
    /\ probe.again = probe.at + 29999
    /\ probe.first.secret = probe.second.secret
    /\ probe.first.expires_at.ms = probe.at + 30000

====
